---- MODULE Spec2Model ----
(***************************************************************************)
(* A model of the pathless request-dispatch layer (src/src/index.ts):      *)
(* route and middleware registration, sub-router mounting, the middleware  *)
(* pipeline driven by the continuation `next`, route matching (matchPath)  *)
(* and dispatch.                                                           *)
(*                                                                         *)
(* Strings are sequences of one-character strings, so that matchPath is    *)
(* computed character by character as the code computes it.                *)
(***************************************************************************)
EXTENDS Integers, Sequences, FiniteSets, TLC

VARIABLES
    routes,       \* owner -> the owner's `routes` array (createApp / createRouter)
    middlewares,  \* owner -> the owner's `middlewares` array
    mounted,      \* TRUE once app.use(prefix, router) has returned
    threw,        \* TRUE when the last registration call threw
    listening,    \* TRUE once app.listen has been called
    ex,           \* exchange id -> the per-request state of app(req, res)
    mIn,          \* the arguments of a call of matchPath or of a decoder
    mOut          \* the result of that call

vars == <<routes, middlewares, mounted, threw, listening, ex, mIn, mOut>>

----------------------------------------------------------------------------
(* Bounds of the model *)

\* longest route pattern given to matchPath in SpecMatch
MaxPatLen == 6
\* longest request pathname given to matchPath in SpecMatch
MaxReqLen == 5
\* most entries the routes and middlewares arrays of the app and of the
\* router hold together (the body parser included)
MaxEntries == 5
\* most entries the two arrays of an app that serves requests hold together
\* (the body parser included)
MaxServedEntries == 4
\* most continuation calls of an exchange that repeat an earlier call of
\* the same handler
MaxRepeatCalls == 1

\* longest form payload given to parseURLEncoded in SpecDecode
MaxFormLen == 5
\* most parts of a multipart payload given to parseMultipart in SpecDecode
MaxParts == 2
\* most bytes of the content of a file given to parseMultipart in SpecDecode
MaxFileLen == 3

\* the most name=value pieces in the query string of a request target
MaxQueryPairs == 3

\* most entries the two arrays of an app that serves two exchanges at a
\* time hold together (the body parser included)
MaxConcEntries == 4

\* characters of the route patterns and of the request pathnames
PatChars == {"/", ":", "a"}
ReqChars == {"/", "a", "b"}

StrUpTo(chars, n) == UNION {[1..k -> chars] : k \in 0..n}

----------------------------------------------------------------------------
(* matchPath *)

NoParams == [x \in {} |-> <<>>]

\* `null`
NoMatch == [matched |-> FALSE, params |-> NoParams]

\* params[paramName] = reqSegment
AssignParam(params, paramName, reqSegment) ==
    [x \in (DOMAIN params) \cup {paramName} |->
        IF x = paramName THEN reqSegment ELSE params[x]]

\* while (path[index] === "/") index++   (indices are 1-based here)
RECURSIVE SkipSlashes(_, _)
SkipSlashes(path, index) ==
    IF index <= Len(path) /\ path[index] = "/"
    THEN SkipSlashes(path, index + 1)
    ELSE index

\* path.indexOf("/", from): the 1-based position, 0 for -1
IndexOfSlash(path, from) ==
    IF \E i \in from..Len(path) : path[i] = "/"
    THEN CHOOSE i \in from..Len(path) :
            path[i] = "/" /\ \A j \in from..(i - 1) : path[j] # "/"
    ELSE 0

\* path.slice(from, nextSlash === -1 ? undefined : nextSlash)
SliceSegment(path, from, nextSlash) ==
    SubSeq(path, from, IF nextSlash = 0 THEN Len(path) ELSE nextSlash - 1)

\* the tail of matchPath with the length check left out
MatchEndNoLengthCheck(routePath, reqPath, routeIndex, reqIndex, params) ==
    [matched |-> TRUE, params |-> params]

\* the tail of matchPath: one path longer than the other gives null
MatchEnd(routePath, reqPath, routeIndex, reqIndex, params) ==
    IF routeIndex <= Len(routePath) \/ reqIndex <= Len(reqPath)
    THEN NoMatch
    ELSE [matched |-> TRUE, params |-> params]

\* a binding that keeps the first occurrence of a repeated name
BindParamFirstWins(params, routeSegment, reqSegment) ==
    IF Tail(routeSegment) \in DOMAIN params
    THEN params
    ELSE AssignParam(params, Tail(routeSegment), reqSegment)

\* paramName = routeSegment.slice(1); params[paramName] = reqSegment
BindParam(params, routeSegment, reqSegment) ==
    AssignParam(params, Tail(routeSegment), reqSegment)

\* routeSegment !== reqSegment
SegmentsDiffer(routeSegment, reqSegment) ==
    routeSegment # reqSegment

\* the while loop of matchPath
RECURSIVE MatchLoop(_, _, _, _, _)
MatchLoop(routePath, reqPath, routeIndex, reqIndex, params) ==
    IF routeIndex <= Len(routePath) /\ reqIndex <= Len(reqPath)
    THEN LET ri == SkipSlashes(routePath, routeIndex)
             qi == SkipSlashes(reqPath, reqIndex)
         IN  IF ri > Len(routePath) \/ qi > Len(reqPath)
             THEN MatchEnd(routePath, reqPath, ri, qi, params)
             ELSE LET nextRouteSlash == IndexOfSlash(routePath, ri)
                      nextReqSlash   == IndexOfSlash(reqPath, qi)
                      routeSegment == SliceSegment(routePath, ri, nextRouteSlash)
                      reqSegment   == SliceSegment(reqPath, qi, nextReqSlash)
                      ri2 == IF nextRouteSlash = 0 THEN Len(routePath) + 1
                                                   ELSE nextRouteSlash
                      qi2 == IF nextReqSlash = 0 THEN Len(reqPath) + 1
                                                 ELSE nextReqSlash
                  IN  IF routeSegment[1] = ":"
                      THEN MatchLoop(routePath, reqPath, ri2, qi2,
                                     BindParam(params, routeSegment, reqSegment))
                      ELSE IF SegmentsDiffer(routeSegment, reqSegment)
                           THEN NoMatch
                           ELSE MatchLoop(routePath, reqPath, ri2, qi2, params)
    ELSE MatchEnd(routePath, reqPath, routeIndex, reqIndex, params)

matchPath(routePath, reqPath) ==
    MatchLoop(routePath, reqPath, 1, 1, NoParams)

\* path.split("/").filter(Boolean)
RECURSIVE Segments(_)
Segments(path) ==
    IF path = <<>> THEN <<>>
    ELSE IF path[1] = "/" THEN Segments(Tail(path))
    ELSE LET nextSlash == IndexOfSlash(path, 1)
         IN  IF nextSlash = 0 THEN <<path>>
             ELSE <<SubSeq(path, 1, nextSlash - 1)>>
                    \o Segments(SubSeq(path, nextSlash + 1, Len(path)))

\* the for loop of the first version of matchPath
RECURSIVE MatchSegmentsV1(_, _, _, _)
MatchSegmentsV1(routeSegments, reqSegments, i, params) ==
    IF i > Len(routeSegments) THEN [matched |-> TRUE, params |-> params]
    ELSE IF routeSegments[i][1] = ":"
         THEN MatchSegmentsV1(routeSegments, reqSegments, i + 1,
                  AssignParam(params, Tail(routeSegments[i]), reqSegments[i]))
         ELSE IF routeSegments[i] # reqSegments[i] THEN NoMatch
              ELSE MatchSegmentsV1(routeSegments, reqSegments, i + 1, params)

\* the first version of matchPath (split, filter, compare pairwise)
matchPathV1(routePath, reqPath) ==
    LET routeSegments == Segments(routePath)
        reqSegments   == Segments(reqPath)
    IN  IF Len(routeSegments) # Len(reqSegments) THEN NoMatch
        ELSE MatchSegmentsV1(routeSegments, reqSegments, 1, NoParams)

----------------------------------------------------------------------------
(* Strings, as the decoders of the body parser use them *)

\* a JavaScript value that is a string, and the value undefined
Str(v) == [t |-> "string", v |-> v]
Undef  == [t |-> "undefined", v |-> <<>>]

\* str.indexOf(sep, from): the 1-based position, 0 for -1
IndexOf(str, sep, from) ==
    LET at(i) == SubSeq(str, i, i + Len(sep) - 1) = sep
        last  == Len(str) - Len(sep) + 1
    IN  IF \E i \in from..last : at(i)
        THEN CHOOSE i \in from..last : at(i) /\ \A j \in from..(i - 1) : ~at(j)
        ELSE 0

\* str.split(sep), for a separator that is not empty
RECURSIVE Split(_, _)
Split(str, sep) ==
    LET i == IndexOf(str, sep, 1)
    IN  IF i = 0 THEN <<str>>
        ELSE <<SubSeq(str, 1, i - 1)>>
                \o Split(SubSeq(str, i + Len(sep), Len(str)), sep)

\* the value of a hexadecimal digit, -1 for any other character
HexDigits == <<"0", "1", "2", "3", "4", "5", "6", "7", "8", "9",
               "a", "b", "c", "d", "e", "f">>
HexUpper  == <<"0", "1", "2", "3", "4", "5", "6", "7", "8", "9",
               "A", "B", "C", "D", "E", "F">>
HexValue(c) ==
    IF \E d \in 1..Len(HexDigits) : HexDigits[d] = c \/ HexUpper[d] = c
    THEN (CHOOSE d \in 1..Len(HexDigits) : HexDigits[d] = c \/ HexUpper[d] = c) - 1
    ELSE -1

\* String.fromCharCode for the printable characters the escapes of the
\* model's payloads denote
CharOfCode(code) ==
    CASE code = 68 -> "D" [] code = 69 -> "E" [] code = 84 -> "T" [] code = 85 -> "U"
      [] code = 61 -> "="

\* decodeURIComponent: every %XX becomes the character of that code; a
\* '%' that is not followed by two hexadecimal digits throws URIError
RECURSIVE decodeURIComponent(_)
decodeURIComponent(str) ==
    IF str = <<>> THEN [threw |-> FALSE, v |-> <<>>]
    ELSE IF str[1] # "%"
         THEN LET rest == decodeURIComponent(Tail(str))
              IN  [threw |-> rest.threw,
                   v |-> IF rest.threw THEN <<>> ELSE <<str[1]>> \o rest.v]
         ELSE IF Len(str) < 3 \/ HexValue(str[2]) < 0 \/ HexValue(str[3]) < 0
              THEN [threw |-> TRUE, v |-> <<>>]
              ELSE LET rest == decodeURIComponent(SubSeq(str, 4, Len(str)))
                       code == 16 * HexValue(str[2]) + HexValue(str[3])
                   IN  [threw |-> rest.threw,
                        v |-> IF rest.threw THEN <<>>
                              ELSE <<CharOfCode(code)>> \o rest.v]

\* result[key] = value
SetKey(result, key, value) ==
    [k \in (DOMAIN result) \cup {key} |-> IF k = key THEN value ELSE result[k]]

\* const [key, value] = pieces: the second piece, the later ones are dropped
PairValue(pieces) == IF Len(pieces) < 2 THEN <<>> ELSE pieces[2]

\* the for loop of parseURLEncoded, from pair i on
RECURSIVE ParsePairs(_, _, _)
ParsePairs(pairs, i, result) ==
    IF i > Len(pairs) THEN [threw |-> FALSE, v |-> result]
    ELSE LET pieces  == Split(pairs[i], <<"=">>)
             decoded == [p \in 1..Len(pieces) |-> decodeURIComponent(pieces[p])]
         IN  IF \E p \in 1..Len(pieces) : decoded[p].threw
             THEN [threw |-> TRUE, v |-> result]
             ELSE LET values == [p \in 1..Len(pieces) |-> decoded[p].v]
                      value  == IF Len(pieces) < 2 THEN Undef
                                ELSE Str(PairValue(values))
                  IN  ParsePairs(pairs, i + 1, SetKey(result, values[1], value))

\* parseURLEncoded(bodyString)
parseURLEncoded(bodyString) ==
    ParsePairs(Split(bodyString, <<"&">>), 1, NoParams)

\* the characters U+0000 to U+00FF, by code: a printable ASCII character is
\* written as itself, any other as the name of its code point
Latin1 ==
    <<"U+0000", "U+0001", "U+0002", "U+0003", "U+0004", "U+0005", "U+0006",
      "U+0007", "U+0008", "\t", "\n", "U+000B", "U+000C", "\r", "U+000E",
      "U+000F", "U+0010", "U+0011", "U+0012", "U+0013", "U+0014", "U+0015",
      "U+0016", "U+0017", "U+0018", "U+0019", "U+001A", "U+001B", "U+001C",
      "U+001D", "U+001E", "U+001F", " ", "!", "\"", "#", "$", "%", "&",
      "'", "(", ")", "*", "+", ",", "-", ".", "/", "0", "1", "2", "3", "4",
      "5", "6", "7", "8", "9", ":", ";", "<", "=", ">", "?", "@", "A", "B",
      "C", "D", "E", "F", "G", "H", "I", "J", "K", "L", "M", "N", "O", "P",
      "Q", "R", "S", "T", "U", "V", "W", "X", "Y", "Z", "[", "\\", "]",
      "^", "_", "U+0060", "a", "b", "c", "d", "e", "f", "g", "h", "i", "j", "k",
      "l", "m", "n", "o", "p", "q", "r", "s", "t", "u", "v", "w", "x", "y",
      "z", "{", "|", "}", "~", "U+007F", "U+0080", "U+0081", "U+0082",
      "U+0083", "U+0084", "U+0085", "U+0086", "U+0087", "U+0088", "U+0089",
      "U+008A", "U+008B", "U+008C", "U+008D", "U+008E", "U+008F", "U+0090",
      "U+0091", "U+0092", "U+0093", "U+0094", "U+0095", "U+0096", "U+0097",
      "U+0098", "U+0099", "U+009A", "U+009B", "U+009C", "U+009D", "U+009E",
      "U+009F", "U+00A0", "U+00A1", "U+00A2", "U+00A3", "U+00A4", "U+00A5",
      "U+00A6", "U+00A7", "U+00A8", "U+00A9", "U+00AA", "U+00AB", "U+00AC",
      "U+00AD", "U+00AE", "U+00AF", "U+00B0", "U+00B1", "U+00B2", "U+00B3",
      "U+00B4", "U+00B5", "U+00B6", "U+00B7", "U+00B8", "U+00B9", "U+00BA",
      "U+00BB", "U+00BC", "U+00BD", "U+00BE", "U+00BF", "U+00C0", "U+00C1",
      "U+00C2", "U+00C3", "U+00C4", "U+00C5", "U+00C6", "U+00C7", "U+00C8",
      "U+00C9", "U+00CA", "U+00CB", "U+00CC", "U+00CD", "U+00CE", "U+00CF",
      "U+00D0", "U+00D1", "U+00D2", "U+00D3", "U+00D4", "U+00D5", "U+00D6",
      "U+00D7", "U+00D8", "U+00D9", "U+00DA", "U+00DB", "U+00DC", "U+00DD",
      "U+00DE", "U+00DF", "U+00E0", "U+00E1", "U+00E2", "U+00E3", "U+00E4",
      "U+00E5", "U+00E6", "U+00E7", "U+00E8", "U+00E9", "U+00EA", "U+00EB",
      "U+00EC", "U+00ED", "U+00EE", "U+00EF", "U+00F0", "U+00F1", "U+00F2",
      "U+00F3", "U+00F4", "U+00F5", "U+00F6", "U+00F7", "U+00F8", "U+00F9",
      "U+00FA", "U+00FB", "U+00FC", "U+00FD", "U+00FE", "U+00FF">>

\* the code unit of a character: U+FFFD is what a decoder puts in place of
\* bytes it cannot decode
ReplacementChar == "U+FFFD"
Latin1Code == [c \in {Latin1[i] : i \in 1..256} |->
                 (CHOOSE i \in 1..256 : Latin1[i] = c) - 1]
CodeUnit(c) == IF c = ReplacementChar THEN 65533 ELSE Latin1Code[c]

\* the UTF-8 bytes of one character
Utf8Bytes(c) ==
    LET code == CodeUnit(c)
    IN  IF code < 128 THEN <<code>>
        ELSE IF code < 2048
             THEN <<192 + (code \div 64), 128 + (code % 64)>>
             ELSE <<224 + (code \div 4096), 128 + ((code \div 64) % 64),
                    128 + (code % 64)>>

\* Buffer.from(str): the UTF-8 bytes of the characters of a string, one
\* after the other
RECURSIVE BufferFrom(_)
BufferFrom(str) ==
    IF str = <<>> THEN <<>>
    ELSE IF Len(str) = 1 THEN Utf8Bytes(str[1])
    ELSE LET half == Len(str) \div 2
         IN  BufferFrom(SubSeq(str, 1, half))
                \o BufferFrom(SubSeq(str, half + 1, Len(str)))

\* Buffer.from(str, "binary"): one byte per character, its code modulo 256
BufferFromBinary(str) == [i \in 1..Len(str) |-> CodeUnit(str[i]) % 256]

\* buffer.toString(): UTF-8 decoding. A byte below 0x80 is its character, a
\* lead byte 0xC2 or 0xC3 with the continuation byte behind it is a
\* character up to U+00FF, any other byte that starts no sequence is
\* replaced by U+FFFD. (Longer sequences denote characters beyond U+00FF;
\* the payloads of the model hold none.)
Utf8String(buffer) ==
    LET Continues(i) == /\ i > 1
                        /\ buffer[i] \in 128..191
                        /\ buffer[i - 1] \in {194, 195}
        Starts(i) == ~Continues(i)
        starts == SelectSeq([i \in 1..Len(buffer) |-> i], Starts)
        CharAt(i) ==
            IF buffer[i] < 128 THEN Latin1[buffer[i] + 1]
            ELSE IF i < Len(buffer) /\ Continues(i + 1)
                 THEN Latin1[(buffer[i] - 192) * 64 + (buffer[i + 1] - 128) + 1]
                 ELSE ReplacementChar
    IN  [k \in 1..Len(starts) |-> CharAt(starts[k])]

\* a decoding of the payload as UTF-8 text
BinaryStringAsUtf8(buffer) == Utf8String(buffer)

\* buffer.toString("binary"): one character per byte, of that code
BinaryString(buffer) == [i \in 1..Len(buffer) |-> Latin1[buffer[i] + 1]]

\* the words of the multipart syntax, character by character
CRLF == <<"\r", "\n">>
CRLFCRLF == CRLF \o CRLF
DashDash == <<"-", "-">>
ColonSpace == <<":", " ">>
NameEqQuote ==
    <<"n", "a", "m", "e", "=", "\"">>
FilenameEqQuote ==
    <<"f", "i", "l", "e", "n", "a", "m", "e", "=", "\"">>
ContentDispositionKey ==
    <<"c", "o", "n", "t", "e", "n", "t", "-", "d", "i", "s", "p", "o", "s",
      "i", "t", "i", "o", "n">>
ContentTypeKey ==
    <<"c", "o", "n", "t", "e", "n", "t", "-", "t", "y", "p", "e">>
OctetStream ==
    <<"a", "p", "p", "l", "i", "c", "a", "t", "i", "o", "n", "/", "o", "c",
      "t", "e", "t", "-", "s", "t", "r", "e", "a", "m">>

\* str.startsWith(prefix)
HasPrefix(str, prefix) ==
    Len(prefix) <= Len(str) /\ SubSeq(str, 1, Len(prefix)) = prefix

\* str.toLowerCase()
UpperLetters == <<"A", "B", "C", "D", "E", "F", "G", "H", "I", "J", "K", "L", "M",
                  "N", "O", "P", "Q", "R", "S", "T", "U", "V", "W", "X", "Y", "Z">>
LowerLetters == <<"a", "b", "c", "d", "e", "f", "g", "h", "i", "j", "k", "l", "m",
                  "n", "o", "p", "q", "r", "s", "t", "u", "v", "w", "x", "y", "z">>
toLowerCase(str) ==
    [i \in 1..Len(str) |->
        IF \E l \in 1..26 : UpperLetters[l] = str[i]
        THEN LowerLetters[CHOOSE l \in 1..26 : UpperLetters[l] = str[i]]
        ELSE str[i]]

\* str.slice(0, -2)
DropLastTwo(str) == SubSeq(str, 1, Len(str) - 2)

\* splitBuffer(str, separator): [part1, part2], or [null, null]
splitBuffer(str, separator) ==
    LET index == IndexOf(str, separator, 1)
    IN  IF index = 0 THEN [found |-> FALSE, part1 |-> <<>>, part2 |-> <<>>]
        ELSE [found |-> TRUE,
              part1 |-> SubSeq(str, 1, index - 1),
              part2 |-> SubSeq(str, index + Len(separator), Len(str))]

\* the for loop of parseHeaders, from line i on
RECURSIVE ParseHeaderLines(_, _, _)
ParseHeaderLines(lines, i, headers) ==
    IF i > Len(lines) THEN headers
    ELSE LET pieces == Split(lines[i], ColonSpace)
         IN  IF Len(pieces) >= 2 /\ pieces[1] # <<>> /\ pieces[2] # <<>>
             THEN ParseHeaderLines(lines, i + 1,
                      SetKey(headers, toLowerCase(pieces[1]), pieces[2]))
             ELSE ParseHeaderLines(lines, i + 1, headers)

\* parseHeaders(headerString)
parseHeaders(headerString) ==
    ParseHeaderLines(Split(headerString, CRLF), 1, NoParams)

\* str.match(/word="([^"]+)"/), word being name or filename: the leftmost
\* place where the word, '="', one non-quote character or more and a quote
\* follow one another, wherever in str that is
MatchQuoted(str, word) ==
    LET hit(i) == /\ i + Len(word) <= Len(str)
                  /\ SubSeq(str, i, i + Len(word) - 1) = word
                  /\ str[i + Len(word)] # "\""
                  /\ \E q \in (i + Len(word))..Len(str) : str[q] = "\""
        hits == {i \in 1..Len(str) : hit(i)}
    IN  IF hits = {} THEN [found |-> FALSE, v |-> <<>>]
        ELSE LET i == CHOOSE h \in hits : \A g \in hits : h <= g
                 from == i + Len(word)
                 q == CHOOSE c \in from..Len(str) :
                         str[c] = "\"" /\ \A b \in from..(c - 1) : str[b] # "\""
             IN  [found |-> TRUE, v |-> SubSeq(str, from, q - 1)]

NoParts == [fields |-> NoParams, files |-> NoParams]

\* the callback of parts.forEach in parseMultipart
ParsePart(result, rawPart) ==
    LET part == IF HasPrefix(rawPart, CRLF)
                THEN SubSeq(rawPart, 3, Len(rawPart)) ELSE rawPart
        cut  == splitBuffer(part, CRLFCRLF)
    IN  IF part = <<>> \/ part = DashDash \o CRLF \/ part = DashDash
        THEN result
        ELSE IF ~cut.found \/ cut.part1 = <<>> \/ cut.part2 = <<>>
        THEN result
        ELSE LET headers == parseHeaders(cut.part1)
             IN  IF ContentDispositionKey \notin DOMAIN headers
                 THEN result
                 ELSE LET contentDisposition == headers[ContentDispositionKey]
                          nameMatch == MatchQuoted(contentDisposition, NameEqQuote)
                          filenameMatch ==
                              MatchQuoted(contentDisposition, FilenameEqQuote)
                      IN  IF ~nameMatch.found THEN result
                          ELSE IF filenameMatch.found
                          THEN [result EXCEPT !.files =
                                  SetKey(@, nameMatch.v,
                                     [filename    |-> filenameMatch.v,
                                      contentType |->
                                          IF ContentTypeKey \in DOMAIN headers
                                          THEN headers[ContentTypeKey]
                                          ELSE OctetStream,
                                      data        |->
                                          BufferFromBinary(
                                              DropLastTwo(cut.part2))])]
                          ELSE [result EXCEPT !.fields =
                                  SetKey(@, nameMatch.v, DropLastTwo(cut.part2))]

\* parts.forEach(...), from part i on
RECURSIVE ParseParts(_, _, _)
ParseParts(parts, i, result) ==
    IF i > Len(parts) THEN result
    ELSE ParseParts(parts, i + 1, ParsePart(result, parts[i]))

\* parseMultipart(rawBody, boundary)
parseMultipart(rawBody, boundary) ==
    LET boundaryBuffer == BufferFrom(DashDash \o boundary)
        parts == Split(BinaryString(rawBody), BinaryString(boundaryBuffer))
    IN  ParseParts(parts, 1, NoParts)

----------------------------------------------------------------------------
(* bodyParser: the decoding of the payload by content type *)

ApplicationJson ==
    <<"a", "p", "p", "l", "i", "c", "a", "t", "i", "o", "n", "/", "j", "s",
      "o", "n">>
ApplicationForm ==
    <<"a", "p", "p", "l", "i", "c", "a", "t", "i", "o", "n", "/", "x", "-",
      "w", "w", "w", "-", "f", "o", "r", "m", "-", "u", "r", "l", "e",
      "n", "c", "o", "d", "e", "d">>
MultipartFormData ==
    <<"m", "u", "l", "t", "i", "p", "a", "r", "t", "/", "f", "o", "r", "m",
      "-", "d", "a", "t", "a">>
BoundaryEq ==
    <<"b", "o", "u", "n", "d", "a", "r", "y", "=">>

\* str.includes(sub)
Includes(str, sub) == IndexOf(str, sub, 1) > 0

\* str.trim()
WhiteSpace == {" ", "\t", "\r", "\n"}
RECURSIVE TrimStart(_)
TrimStart(str) ==
    IF str # <<>> /\ str[1] \in WhiteSpace THEN TrimStart(Tail(str)) ELSE str
RECURSIVE TrimEnd(_)
TrimEnd(str) ==
    IF str # <<>> /\ str[Len(str)] \in WhiteSpace
    THEN TrimEnd(SubSeq(str, 1, Len(str) - 1)) ELSE str
Trim(str) == TrimEnd(TrimStart(str))

\* getBoundary(contentType): the boundary, or null (found = FALSE)
RECURSIVE BoundaryOfItems(_, _)
BoundaryOfItems(items, i) ==
    IF i > Len(items) THEN [found |-> FALSE, v |-> <<>>]
    ELSE LET trimmedItem == Trim(items[i])
         IN  IF HasPrefix(trimmedItem, BoundaryEq)
             THEN [found |-> TRUE,
                   v |-> SubSeq(trimmedItem, Len(BoundaryEq) + 1, Len(trimmedItem))]
             ELSE BoundaryOfItems(items, i + 1)

getBoundary(contentType) == BoundaryOfItems(Split(contentType, <<";">>), 1)

\* Buffer.concat(bodyData)
RECURSIVE Concat(_)
Concat(chunks) ==
    IF chunks = <<>> THEN <<>> ELSE chunks[1] \o Concat(Tail(chunks))

\* the values req.body and req.files take
Mapping(m)   == [t |-> "mapping", v |-> m]
EmptyMapping == Mapping(NoParams)
BufferOf(b)  == [t |-> "buffer", v |-> b]
NumberOf(n)  == [t |-> "number", v |-> <<n>>]
ArrayOf(a)   == [t |-> "array", v |-> a]

\* JSON.parse, for texts made of the characters 1 [ ] { : a text is a
\* number written with 1s or an array of at most one such text; every other
\* text over these characters is a SyntaxError
RECURSIVE JSONValid(_)
JSONValid(text) ==
    /\ text # <<>>
    /\ \/ \A i \in 1..Len(text) : text[i] = "1"
       \/ /\ Len(text) >= 2
          /\ text[1] = "[" /\ text[Len(text)] = "]"
          /\ Len(text) = 2 \/ JSONValid(SubSeq(text, 2, Len(text) - 1))

RECURSIVE NumberOfOnes(_)
NumberOfOnes(n) == IF n = 0 THEN 0 ELSE 10 * NumberOfOnes(n - 1) + 1

RECURSIVE JSONValue(_)
JSONValue(text) ==
    IF text[1] = "1" THEN NumberOf(NumberOfOnes(Len(text)))
    ELSE IF Len(text) = 2 THEN ArrayOf(<<>>)
    ELSE ArrayOf(<<JSONValue(SubSeq(text, 2, Len(text) - 1))>>)

JSONParse(text) ==
    IF JSONValid(text) THEN [threw |-> FALSE, v |-> JSONValue(text)]
    ELSE [threw |-> TRUE, v |-> Undef]

\* a catch that keeps the raw payload as the body
JsonBodyKeepsRaw(rawBody) ==
    LET parsed == JSONParse(Utf8String(rawBody))
    IN  IF parsed.threw THEN BufferOf(rawBody) ELSE parsed.v

\* try { req.body = JSON.parse(rawBody.toString()) } catch (err) { req.body = {} }
JsonBody(rawBody) ==
    LET parsed == JSONParse(Utf8String(rawBody))
    IN  IF parsed.threw THEN EmptyMapping ELSE parsed.v

\* the body of the 'end' listener up to its call of next(): the new
\* req.body and req.files, or an exception that leaves the listener
DecodeBody(contentType, rawBody, body, files) ==
    IF Includes(contentType, ApplicationJson)
    THEN [threw |-> FALSE, body |-> JsonBody(rawBody), files |-> files]
    ELSE IF Includes(contentType, ApplicationForm)
    THEN LET parsedBody == parseURLEncoded(Utf8String(rawBody))
         IN  [threw |-> parsedBody.threw,
              body  |-> IF parsedBody.threw THEN body ELSE Mapping(parsedBody.v),
              files |-> files]
    ELSE IF Includes(contentType, MultipartFormData)
    THEN LET boundary == getBoundary(contentType)
         IN  IF boundary.found /\ boundary.v # <<>>
             THEN LET parts == parseMultipart(rawBody, boundary.v)
                  IN  [threw |-> FALSE, body |-> Mapping(parts.fields),
                       files |-> Mapping(parts.files)]
             ELSE [threw |-> FALSE, body |-> body, files |-> files]
    ELSE [threw |-> FALSE, body |-> BufferOf(rawBody), files |-> files]

----------------------------------------------------------------------------
(* Registration: createUseFunction, createRouteMethods, createApp,         *)
(* createRouter                                                            *)

Owners == {"app", "router"}

regVars == <<routes, middlewares, mounted, threw, listening>>

\* a handler function is known by the array it was first pushed on and its
\* position there
Handler(owner, n) == [o |-> owner, n |-> n]
BodyParserFn == [o |-> "pathless", n |-> 0]

\* a middleware function: a handler behind the startsWith gates of the
\* wrappers around it (outermost first); no gate for a bare function
Middleware(h) == [h |-> h, gates |-> <<>>]

\* a mount that rewrites the gates of the middleware to path + gate
WrapRewritesGates(path, middleware) ==
    [middleware EXCEPT !.gates =
        IF @ = <<>> THEN <<path>> ELSE [g \in 1..Len(@) |-> path \o @[g]]]

\* (req, res, next) => pathname.startsWith(path) ? middleware(...) : next()
Wrap(path, middleware) == [middleware EXCEPT !.gates = <<path>> \o @]

\* the arguments of a call, by their JavaScript type
StrArg(v)    == [t |-> "string", v |-> v]
FnArg        == [t |-> "function", v |-> <<>>]
RouterArg(o) == [t |-> "router", v |-> o]
ObjectArg    == [t |-> "object", v |-> <<>>]
Undefined    == [t |-> "undefined", v |-> <<>>]

Truthy(arg) == arg.t # "undefined" /\ ~(arg.t = "string" /\ arg.v = <<>>)

\* a typeof test that also takes a plain object for a function
IsFunctionOrObject(arg) == arg.t \in {"function", "object"}

\* typeof arg === "function"
IsFunction(arg) == arg.t = "function"

\* a mount that keeps the sub-router's root path as it is
FullPathKeepRoot(path, routePath) == path \o routePath

\* fullPath = path + (route.path === "/" ? "" : route.path)
FullPath(path, routePath) ==
    path \o (IF routePath = <<"/">> THEN <<>> ELSE routePath)

\* a mount that walks the sub-router's routes from the last to the first
MountedRoutesReversed(path, subRoutes) ==
    [i \in 1..Len(subRoutes) |->
        LET route == subRoutes[Len(subRoutes) + 1 - i]
        IN  [method  |-> route.method,
             path    |-> FullPath(path, route.path),
             handler |-> route.handler]]

\* router.routes.forEach(route => routes.push({method, path: fullPath, handler}))
MountedRoutes(path, subRoutes) ==
    [i \in 1..Len(subRoutes) |->
        [method  |-> subRoutes[i].method,
         path    |-> FullPath(path, subRoutes[i].path),
         handler |-> subRoutes[i].handler]]

\* router.middlewares.forEach(middleware => middlewares.push(wrapper))
MountedMiddlewares(path, subMiddlewares) ==
    [i \in 1..Len(subMiddlewares) |-> Wrap(path, subMiddlewares[i])]

\* a push onto one routes array shared by the app and every router
PushRouteShared(tables, owner, route) ==
    [o \in DOMAIN tables |-> Append(tables[o], route)]

\* routes.push(route), on the array the owner's closure holds
PushRoute(tables, owner, route) ==
    [tables EXCEPT ![owner] = Append(@, route)]

\* middlewares.push(middleware), on the array the owner's closure holds
PushMiddleware(lists, owner, middleware) ==
    [lists EXCEPT ![owner] = Append(@, middleware)]

\* the size of the configuration built so far
ConfigSize ==
    Len(routes["app"]) + Len(routes["router"])
        + Len(middlewares["app"]) + Len(middlewares["router"])

\* obj[method.toLowerCase()] = (path, handler) => routes.push(...)
routeMethod(owner, method, path) ==
    /\ ~listening
    /\ ConfigSize < MaxEntries
    /\ routes' = PushRoute(routes, owner,
                    [method  |-> method,
                     path    |-> path,
                     handler |-> Handler(owner, Len(routes[owner]) + 1)])
    /\ threw' = FALSE
    /\ UNCHANGED <<middlewares, mounted, listening>>

\* the function createUseFunction returns, called as
\* owner.use(pathOrMiddleware, routerOrMiddleware)
use(owner, pathOrMiddleware, routerOrMiddleware) ==
    /\ ~listening
    /\ IF pathOrMiddleware.t = "string" /\ Truthy(routerOrMiddleware)
       THEN IF routerOrMiddleware.t = "router"
            THEN LET sub == routerOrMiddleware.v
                 IN  /\ ConfigSize + Len(routes[sub]) + Len(middlewares[sub])
                            <= MaxEntries
                     /\ routes' = [routes EXCEPT ![owner] =
                            @ \o MountedRoutes(pathOrMiddleware.v, routes[sub])]
                     /\ middlewares' = [middlewares EXCEPT ![owner] =
                            @ \o MountedMiddlewares(pathOrMiddleware.v,
                                                    middlewares[sub])]
                     /\ mounted' = (mounted \/ (owner = "app" /\ sub = "router"))
                     /\ threw' = FALSE
            ELSE IF IsFunction(routerOrMiddleware)
                 THEN /\ ConfigSize < MaxEntries
                      /\ middlewares' = PushMiddleware(middlewares, owner,
                            Wrap(pathOrMiddleware.v,
                                 Middleware(Handler(owner,
                                     Len(middlewares[owner]) + 1))))
                      /\ threw' = FALSE
                      /\ UNCHANGED <<routes, mounted>>
                 ELSE /\ threw' = TRUE
                      /\ UNCHANGED <<routes, middlewares, mounted>>
       ELSE IF IsFunction(pathOrMiddleware)
            THEN /\ ConfigSize < MaxEntries
                 /\ middlewares' = PushMiddleware(middlewares, owner,
                        Middleware(Handler(owner, Len(middlewares[owner]) + 1)))
                 /\ threw' = FALSE
                 /\ UNCHANGED <<routes, mounted>>
            ELSE /\ threw' = TRUE
                 /\ UNCHANGED <<routes, middlewares, mounted>>
    /\ UNCHANGED listening

\* app.listen(port): the tables are complete, requests are served from now
listen ==
    /\ ~listening
    /\ listening' = TRUE
    /\ UNCHANGED <<routes, middlewares, mounted, threw>>

\* createApp: middlewares = [bodyParser], routes = []
\* createRouter: middlewares = [], routes = []
RegistryInit ==
    /\ routes = [o \in Owners |-> <<>>]
    /\ middlewares = [o \in Owners |->
            IF o = "app" THEN <<Middleware(BodyParserFn)>> ELSE <<>>]
    /\ mounted = FALSE
    /\ threw = FALSE
    /\ listening = FALSE

NoMatchIn  == [routePath |-> <<>>, reqPath |-> <<>>]
NoMatchOut == [done |-> FALSE, version |-> 0, matched |-> FALSE, params |-> NoParams]

----------------------------------------------------------------------------
(* The exchange: app(req, res), the continuation next, the body parser     *)

\* a body parser that reads the payload of GET requests as well
BodyMethodsWithGet == {"POST", "PUT", "PATCH", "GET"}

\* the methods whose payload bodyParser reads
BodyMethods == {"POST", "PUT", "PATCH"}

\* the log of an exchange: what was invoked, called and written, in order
\*   mw i       middlewares[i-1] was invoked (slots are counted from 1)
\*   fn i       the handler behind the gates of slot i was invoked
\*   next i     slot i called next()
\*   pass i     the wrapper of slot i called next() itself
\*   nextErr i  slot i called next(err)
\*   respond i  the handler of slot i ended the response itself
\*   match      routes.find ran
\*   route k    the handler of routes[k-1] was invoked
\*   404, 500   the pipeline ended the response with that status
\*   end        the transport reported the end of the payload
\*   error      the transport reported a read error
Event(t, i) == [t |-> t, i |-> i]

\* the per-request state: req (method, pathname, the content-type header,
\* params, body, files), the chunks of the payload the transport has not
\* delivered yet (pending) and those the body parser has pushed (bodyData),
\* res, the cursor idx of the closure, the handlers that hold the
\* continuation (live), the body parser's listeners (bp)
NewExchangeWith(method, pathname, contentType, chunks) ==
    [active   |-> TRUE,
     method   |-> method,
     pathname |-> pathname,
     contentType |-> contentType,
     pending  |-> chunks,
     bodyData |-> <<>>,
     body     |-> Undef,
     files    |-> Undef,
     idx      |-> 0,
     live     |-> {},
     bp       |-> "idle",
     params   |-> [set |-> FALSE, val |-> NoParams],
     res      |-> [statusCode |-> 200, ends |-> <<>>],
     log      |-> <<>>]

\* a request without content type and without payload
NewExchange(method, pathname) == NewExchangeWith(method, pathname, <<>>, <<>>)

IdleExchange == [NewExchange("", <<>>) EXCEPT !.active = FALSE]

ExIds == {1}
ExchangeInit == ex = [e \in ExIds |-> IdleExchange]

Logged(x, t) == {p \in 1..Len(x.log) : x.log[p].t = t}

\* how often slot i has called the continuation, with or without an error
CallsBy(x, i) ==
    Cardinality({p \in 1..Len(x.log) :
                    x.log[p].t \in {"next", "nextErr", "pass"} /\ x.log[p].i = i})

\* how often the handler of slot i has called it
HandlerCalls(x, i) ==
    Cardinality({p \in 1..Len(x.log) :
                    x.log[p].t \in {"next", "nextErr"} /\ x.log[p].i = i})

\* the continuation calls that were not the first call of their slot
RepeatCalls(x) ==
    LET IsCall(ev) == ev.t \in {"next", "nextErr", "pass"}
        calls == SelectSeq(x.log, IsCall)
    IN  Len(calls) - Cardinality({calls[p].i : p \in 1..Len(calls)})

\* res.statusCode = statusCode; res.end(body)
EndWith(res, statusCode, body) ==
    [statusCode |-> statusCode, ends |-> Append(res.ends, body)]

\* a gate that compares the whole pathname with the prefix
StartsWithWholePath(pathname, path) == pathname = path

\* req.pathname && req.pathname.startsWith(path)
StartsWith(pathname, path) ==
    /\ pathname # <<>>
    /\ Len(path) <= Len(pathname)
    /\ SubSeq(pathname, 1, Len(path)) = path

\* every wrapper around the handler lets the request through
GatesPass(middleware, pathname) ==
    \A g \in 1..Len(middleware.gates) : StartsWith(pathname, middleware.gates[g])

\* a find that takes the last route that matches
FindRouteLast(table, method, pathname, k) ==
    LET hits == {j \in k..Len(table) :
                    /\ table[j].method = method
                    /\ matchPath(table[j].path, pathname).matched}
    IN  IF hits = {} THEN 0 ELSE CHOOSE j \in hits : \A h \in hits : h <= j

\* a find that does not compare the methods
FindRouteAnyMethod(table, method, pathname, k) ==
    LET hits == {j \in k..Len(table) : matchPath(table[j].path, pathname).matched}
    IN  IF hits = {} THEN 0 ELSE CHOOSE j \in hits : \A h \in hits : j <= h

\* routes.find(r => r.method === method && matchPath(r.path, pathname)):
\* the position of the first such route from k on, 0 when there is none
RECURSIVE FindRoute(_, _, _, _)
FindRoute(table, method, pathname, k) ==
    IF k > Len(table) THEN 0
    ELSE IF table[k].method # method THEN FindRoute(table, method, pathname, k + 1)
    ELSE IF matchPath(table[k].path, pathname).matched THEN k
    ELSE FindRoute(table, method, pathname, k + 1)

\* a find callback that assigns req.params whatever matchPath returned
ParamsAssignedByEveryFind(x, k) ==
    [set |-> TRUE,
     val |-> IF k > 0 THEN matchPath(routes["app"][k].path, x.pathname).params
             ELSE NoParams]

\* if (params) { reqExt.params = params; return true; }: req.params after
\* routes.find has stopped at routes[k-1], or has found no route (k = 0)
ParamsAfterFind(x, k) ==
    IF k > 0
    THEN [set |-> TRUE,
          val |-> matchPath(routes["app"][k].path, x.pathname).params]
    ELSE x.params

\* a dispatch without its else: 404 is written behind the handler as well
DispatchWithoutElse(x) ==
    LET k  == FindRoute(routes["app"], x.method, x.pathname, 1)
        x1 == [x EXCEPT !.log = Append(@, Event("match", 0)),
                        !.params = ParamsAfterFind(x, k)]
        x2 == IF k > 0
              THEN [x1 EXCEPT
                      !.res.ends = Append(@, "route handler"),
                      !.log = Append(@, Event("route", k))]
              ELSE x1
    IN  [x2 EXCEPT
            !.res = EndWith(@, 404, "Not Found"),
            !.log = Append(@, Event("404", 0))]

\* the else branch of next: find the route, bind req.params, call the
\* handler, or end with 404
Dispatch(x) ==
    LET k  == FindRoute(routes["app"], x.method, x.pathname, 1)
        x1 == [x EXCEPT !.log = Append(@, Event("match", 0)),
                        !.params = ParamsAfterFind(x, k)]
    IN  IF k > 0
        THEN [x1 EXCEPT
                !.res.ends = Append(@, "route handler"),
                !.log = Append(@, Event("route", k))]
        ELSE [x1 EXCEPT
                !.res = EndWith(@, 404, "Not Found"),
                !.log = Append(@, Event("404", 0))]

\* a cursor test that stops one middleware early
HasMoreMiddlewareOffByOne(idx, length) == idx < length - 1

\* a cursor test that stops behind the built-in body parser
HasMoreMiddlewareBuiltInOnly(idx, length) == idx < 1

\* idx < middlewares.length
HasMoreMiddleware(idx, length) == idx < length

\* an error branch that writes 500 and goes on down the chain
ErrorReturnsFallThrough(err) == FALSE

\* if (err) { ...; return; }
ErrorReturns(err) == err

\* a wrapper without its else: it calls next() after the handler as well
WrapperCallsNextNoElse(middleware, pathname) == middleware.gates # <<>>

\* the wrapper's else branch: next() when the gate fails
WrapperCallsNext(middleware, pathname) == ~GatesPass(middleware, pathname)

\* a body parser that never waits for the payload
BodyParserNeverWaits(method) == FALSE

\* ["POST", "PUT", "PATCH"].includes(req.method || ""): the body parser
\* registers its listeners and returns without calling next()
BodyParserWaits(method) == method \in BodyMethods

\* function next(err), and the middleware it invokes: the body parser
\* continues at once unless it has a payload to read; a wrapper whose gate
\* fails continues at once; any other handler holds the continuation
RECURSIVE next(_, _)
next(x, err) ==
    LET x0 == IF err
              THEN [x EXCEPT !.res = EndWith(@, 500, "Internal Server Error"),
                             !.log = Append(@, Event("500", 0))]
              ELSE x
    IN
    IF ErrorReturns(err) THEN x0
    ELSE IF HasMoreMiddleware(x0.idx, Len(middlewares["app"]))
    THEN LET slot == x0.idx + 1
             mw   == middlewares["app"][slot]
             x1   == [x0 EXCEPT !.idx = @ + 1,
                                !.log = Append(@, Event("mw", slot))]
         IN  IF mw.h = BodyParserFn
             THEN LET x1b == [x1 EXCEPT !.body = EmptyMapping,
                                        !.files = EmptyMapping]
                  IN  IF BodyParserWaits(x1b.method)
                      THEN [x1b EXCEPT !.bp = "reading"]
                      ELSE next([x1b EXCEPT
                                    !.log = Append(@, Event("next", slot))],
                                FALSE)
             ELSE LET x2 == IF GatesPass(mw, x1.pathname)
                            THEN [x1 EXCEPT !.live = @ \cup {slot},
                                            !.log = Append(@, Event("fn", slot))]
                            ELSE x1
                  IN  IF WrapperCallsNext(mw, x1.pathname)
                      THEN next([x2 EXCEPT
                                    !.log = Append(@, Event("pass", slot))],
                                FALSE)
                      ELSE x2
    ELSE Dispatch(x0)

exVars == <<ex, mIn, mOut>>

\* a cursor declared once for the app: a request starts where the cursor
\* of the requests before it stands
CursorOfTheApp(e) ==
    LET reached == {ex[o].idx : o \in DOMAIN ex}
    IN  CHOOSE n \in reached : \A m \in reached : m <= n

\* let idx = 0, inside app(req, res): every request gets a cursor of its own
InitialCursor(e) == 0

\* app(req, res): a request arrives and next() is called
appWith(e, method, pathname, contentType, chunks) ==
    /\ listening
    /\ ~ex[e].active
    /\ ex' = [ex EXCEPT ![e] =
                next([NewExchangeWith(method, pathname, contentType, chunks)
                        EXCEPT !.idx = InitialCursor(e)],
                     FALSE)]
    /\ UNCHANGED <<regVars, mIn, mOut>>

\* app(req, res) for a request without content type and without payload
app(e, method, pathname) == appWith(e, method, pathname, <<>>, <<>>)

\* a handler may call the continuation a first time, and again as long as
\* the bound on repeated calls allows
MayCall(x, i) ==
    /\ i \in x.live
    /\ HandlerCalls(x, i) = 0 \/ RepeatCalls(x) < MaxRepeatCalls

\* a continuation that would resume behind the handler that calls it
ResumeBehindCaller(x, i) == i

\* every handler is given the same function next, which reads the one idx
\* of the exchange: a call resumes from where the cursor stands
ResumeAt(x, i) == x.idx

\* the handler of slot i calls next()
HandlerCallsNext(e, i) ==
    /\ ex[e].active
    /\ MayCall(ex[e], i)
    /\ ex' = [ex EXCEPT ![e] =
                next([@ EXCEPT !.idx = ResumeAt(ex[e], i),
                               !.log = Append(@, Event("next", i))], FALSE)]
    /\ UNCHANGED <<regVars, mIn, mOut>>

\* the handler of slot i calls next(err)
HandlerCallsNextErr(e, i) ==
    /\ ex[e].active
    /\ MayCall(ex[e], i)
    /\ ex' = [ex EXCEPT ![e] =
                next([@ EXCEPT !.log = Append(@, Event("nextErr", i))], TRUE)]
    /\ UNCHANGED <<regVars, mIn, mOut>>

\* the handler of slot i ends the response itself and never calls the
\* continuation (the preflight answer of cors: res.status(204).end())
HandlerResponds(e, i) ==
    /\ ex[e].active
    /\ i \in ex[e].live
    /\ HandlerCalls(ex[e], i) = 0
    /\ ex' = [ex EXCEPT ![e] =
                [@ EXCEPT !.live = @ \ {i},
                          !.res = EndWith(@, 204, ""),
                          !.log = Append(@, Event("respond", i))]]
    /\ UNCHANGED <<regVars, mIn, mOut>>

\* req.on("data"): the transport delivers the next chunk, bodyParser
\* pushes it
BodyData(e) ==
    /\ ex[e].active
    /\ ex[e].bp = "reading"
    /\ ex[e].pending # <<>>
    /\ ex' = [ex EXCEPT ![e] =
                [@ EXCEPT !.bodyData = Append(@, Head(ex[e].pending)),
                          !.pending = Tail(@)]]
    /\ UNCHANGED <<regVars, mIn, mOut>>

\* req.on("end"): every chunk has been delivered; bodyParser decodes the
\* payload and calls next(), unless the decoding throws
BodyEnd(e) ==
    /\ ex[e].active
    /\ ex[e].bp = "reading"
    /\ ex[e].pending = <<>>
    /\ LET x == ex[e]
           decoded == DecodeBody(x.contentType, Concat(x.bodyData),
                                 x.body, x.files)
           x1 == [x EXCEPT !.log = Append(@, Event("end", 0))]
       IN  ex' = [ex EXCEPT ![e] =
                IF decoded.threw THEN [x1 EXCEPT !.bp = "threw"]
                ELSE next([x1 EXCEPT !.bp = "done",
                                     !.body = decoded.body,
                                     !.files = decoded.files,
                                     !.log = Append(@, Event("next", 1))],
                          FALSE)]
    /\ UNCHANGED <<regVars, mIn, mOut>>

\* an 'error' listener that calls next() without the error
OnErrorDropsTheError == FALSE

\* next(err) in the 'error' listener: err is the transport's error
OnErrorPassesTheError == TRUE

\* req.on("error"): the transport failed, bodyParser calls next(err)
BodyError(e) ==
    /\ ex[e].active
    /\ ex[e].bp = "reading"
    /\ ex' = [ex EXCEPT ![e] =
                next([@ EXCEPT !.bp = "done",
                               !.log = Append(Append(@, Event("error", 0)),
                                              Event(IF OnErrorPassesTheError
                                                    THEN "nextErr" ELSE "next",
                                                    1))],
                     OnErrorPassesTheError)]
    /\ UNCHANGED <<regVars, mIn, mOut>>

----------------------------------------------------------------------------
(* Spec: an app is configured, listens, and serves one exchange.           *)

AppMethods   == {"GET", "POST"}
AppPaths     == {<<"/", "a">>, <<"/", ":", "i">>}
AppPrefixes  == {<<"/", "a">>}
ReqPathnames == {<<"/", "a">>, <<"/", "b">>, <<"/", "a", "/", "b">>}

Init ==
    /\ RegistryInit
    /\ ExchangeInit
    /\ mIn = NoMatchIn
    /\ mOut = NoMatchOut

\* the size of the app's own configuration
AppSize == Len(routes["app"]) + Len(middlewares["app"])

AppRoute ==
    /\ AppSize < MaxServedEntries
    /\ \E m \in AppMethods, p \in AppPaths : routeMethod("app", m, p)
    /\ UNCHANGED exVars

AppUse ==
    /\ AppSize < MaxServedEntries
    /\ use("app", FnArg, Undefined)
    /\ UNCHANGED exVars

AppUsePath ==
    /\ AppSize < MaxServedEntries
    /\ \E p \in AppPrefixes : use("app", StrArg(p), FnArg)
    /\ UNCHANGED exVars

AppListen ==
    /\ listen
    /\ UNCHANGED exVars

Request ==
    \E e \in ExIds, m \in AppMethods, p \in ReqPathnames : app(e, m, p)

CallNext ==
    \E e \in ExIds, i \in 1..Len(middlewares["app"]) : HandlerCallsNext(e, i)

CallNextErr ==
    \E e \in ExIds, i \in 1..Len(middlewares["app"]) : HandlerCallsNextErr(e, i)

Respond ==
    \E e \in ExIds, i \in 1..Len(middlewares["app"]) : HandlerResponds(e, i)

PayloadEnd == \E e \in ExIds : BodyEnd(e)

PayloadError == \E e \in ExIds : BodyError(e)

Next ==
    \/ AppRoute \/ AppUse \/ AppUsePath \/ AppListen
    \/ Request \/ CallNext \/ CallNextErr \/ Respond
    \/ PayloadEnd \/ PayloadError

Spec == Init /\ [][Next]_vars

----------------------------------------------------------------------------
(* SpecOrder: as Spec, but the app registers a route before it registers   *)
(* any middleware: every middleware behind the body parser was registered  *)
(* after a route.                                                          *)

OrderUse ==
    /\ routes["app"] # <<>>
    /\ AppSize < MaxServedEntries
    /\ use("app", FnArg, Undefined)
    /\ UNCHANGED exVars

OrderUsePath ==
    /\ routes["app"] # <<>>
    /\ AppSize < MaxServedEntries
    /\ \E p \in AppPrefixes : use("app", StrArg(p), FnArg)
    /\ UNCHANGED exVars

OrderNext ==
    \/ AppRoute \/ OrderUse \/ OrderUsePath \/ AppListen
    \/ Request \/ CallNext \/ CallNextErr

SpecOrder == Init /\ [][OrderNext]_vars

----------------------------------------------------------------------------
(* SpecConc: an app is configured, listens, and serves two exchanges whose *)
(* handlers hold their continuations and call them in any interleaving.    *)

ConcIds == {1, 2}
ConcPathnames == {<<"/", "a">>, <<"/", "b">>}

ConcInit ==
    /\ RegistryInit
    /\ ex = [e \in ConcIds |-> IdleExchange]
    /\ mIn = NoMatchIn
    /\ mOut = NoMatchOut

ConcRoute ==
    /\ AppSize < MaxConcEntries
    /\ \E m \in AppMethods, p \in AppPaths : routeMethod("app", m, p)
    /\ UNCHANGED exVars

ConcUse ==
    /\ AppSize < MaxConcEntries
    /\ use("app", FnArg, Undefined)
    /\ UNCHANGED exVars

ConcUsePath ==
    /\ AppSize < MaxConcEntries
    /\ \E p \in AppPrefixes : use("app", StrArg(p), FnArg)
    /\ UNCHANGED exVars

ConcRequest ==
    \E e \in ConcIds, m \in AppMethods, p \in ConcPathnames : app(e, m, p)

\* in SpecConc a handler calls its continuation at most once
ConcCallNext ==
    \E e \in ConcIds, i \in 1..Len(middlewares["app"]) :
        HandlerCalls(ex[e], i) = 0 /\ HandlerCallsNext(e, i)

ConcCallNextErr ==
    \E e \in ConcIds, i \in 1..Len(middlewares["app"]) :
        HandlerCalls(ex[e], i) = 0 /\ HandlerCallsNextErr(e, i)

ConcPayloadEnd == \E e \in ConcIds : BodyEnd(e)

ConcNext ==
    \/ ConcRoute \/ ConcUse \/ ConcUsePath \/ AppListen
    \/ ConcRequest \/ ConcCallNext \/ ConcCallNextErr \/ ConcPayloadEnd

SpecConc == ConcInit /\ [][ConcNext]_vars

----------------------------------------------------------------------------
(* SpecReg: every order of registration calls on the app and on one        *)
(* router, within the bounds.                                              *)

RegMethods  == {"GET", "POST"}
RegPaths    == {<<"/">>, <<"/", "b">>}
RegPrefixes == {<<"/", "a">>, <<"/">>}

RegInit ==
    /\ RegistryInit
    /\ ExchangeInit
    /\ mIn = NoMatchIn
    /\ mOut = NoMatchOut

RegRoute ==
    /\ \E o \in Owners, m \in RegMethods, p \in RegPaths : routeMethod(o, m, p)
    /\ UNCHANGED <<ex, mIn, mOut>>

RegUse ==
    /\ \E o \in Owners : use(o, FnArg, Undefined)
    /\ UNCHANGED <<ex, mIn, mOut>>

RegUsePath ==
    /\ \E o \in Owners, p \in RegPrefixes : use(o, StrArg(p), FnArg)
    /\ UNCHANGED <<ex, mIn, mOut>>

RegMount ==
    /\ \E p \in RegPrefixes : use("app", StrArg(p), RouterArg("router"))
    /\ UNCHANGED <<ex, mIn, mOut>>

RegUseInvalid ==
    /\ \E o \in Owners, p \in RegPrefixes :
          \/ use(o, StrArg(p), Undefined)
          \/ use(o, StrArg(p), ObjectArg)
          \/ use(o, ObjectArg, FnArg)
    /\ UNCHANGED <<ex, mIn, mOut>>

RegNext == RegRoute \/ RegUse \/ RegUsePath \/ RegMount \/ RegUseInvalid

SpecReg == RegInit /\ [][RegNext]_vars

----------------------------------------------------------------------------
(* SpecMount: middlewares are registered on the app and on one router, the *)
(* router is mounted, the app listens and serves one exchange.             *)

\* owner.use(middleware)
MountUse ==
    /\ ConfigSize < MaxServedEntries
    /\ RegUse

\* owner.use(prefix, middleware)
MountUsePath ==
    /\ ConfigSize < MaxServedEntries
    /\ RegUsePath

\* app.use(prefix, router)
MountRouter ==
    /\ ConfigSize + Len(middlewares["router"]) <= MaxServedEntries
    /\ RegMount

MountNext ==
    \/ MountUse \/ MountUsePath \/ MountRouter \/ AppListen
    \/ Request \/ CallNext \/ PayloadEnd

SpecMount == RegInit /\ [][MountNext]_vars

----------------------------------------------------------------------------
(* SpecMatch: matchPath applied to every pattern and pathname within the   *)
(* bounds.                                                                 *)

\* a request pathname is what the URL parser gives: it starts with '/'
IsPathname(path) == path # <<>> /\ path[1] = "/"

MatchInit ==
    /\ RegistryInit
    /\ ExchangeInit
    /\ mIn \in [routePath : StrUpTo(PatChars, MaxPatLen),
                reqPath   : {p \in StrUpTo(ReqChars, MaxReqLen) : IsPathname(p)}]
    /\ mOut = NoMatchOut

\* the current matchPath is called
CallMatchPath ==
    /\ ~mOut.done
    /\ LET r == matchPath(mIn.routePath, mIn.reqPath)
       IN  mOut' = [done |-> TRUE, version |-> 2,
                    matched |-> r.matched, params |-> r.params]
    /\ UNCHANGED <<regVars, ex, mIn>>

\* the first version of matchPath is called
CallMatchPathV1 ==
    /\ ~mOut.done
    /\ LET r == matchPathV1(mIn.routePath, mIn.reqPath)
       IN  mOut' = [done |-> TRUE, version |-> 1,
                    matched |-> r.matched, params |-> r.params]
    /\ UNCHANGED <<regVars, ex, mIn>>

MatchNext == CallMatchPath \/ CallMatchPathV1

SpecMatch == MatchInit /\ [][MatchNext]_vars

----------------------------------------------------------------------------
(* SpecDecode: the decoders of the body parser applied to every payload    *)
(* within the bounds.                                                      *)

\* characters of the form payloads: a letter, the separators, and the
\* escapes %44, %45, %54, %55
FormChars == {"k", "=", "&", "%", "4", "5"}

NoDecodeOut == [done |-> FALSE, threw |-> FALSE, v |-> NoParams]

\* the parts a client puts in a multipart payload: the parameters of the
\* Content-Disposition header (none: no such header), the field name,
\* whether the part has a Content-Type header of its own, and whether the
\* blank line between headers and body is there
Dispositions ==
    {"none", "name", "name filename", "filename name", "filename"}
PartKinds ==
    [disp : Dispositions, name : {<<"a">>, <<"b">>},
     ctype : BOOLEAN, sep : BOOLEAN]

Boundary == <<"B">>
PartFilename == <<"f">>
PartBody == <<"x">>
TextPlain ==
    <<"t", "e", "x", "t", "/", "p", "l", "a", "i", "n">>
ContentDispositionFormData ==
    <<"C", "o", "n", "t", "e", "n", "t", "-", "D", "i", "s", "p", "o", "s",
      "i", "t", "i", "o", "n", ":", " ", "f", "o", "r", "m", "-", "d",
      "a", "t", "a">>
ContentTypeTextPlain ==
    <<"C", "o", "n", "t", "e", "n", "t", "-", "T", "y", "p", "e", ":", " ",
      "t", "e", "x", "t", "/", "p", "l", "a", "i", "n">>

\* '; name="..."'
QuotedParam(word, value) == <<";", " ">> \o word \o value \o <<"\"">>

\* the text of one part, between two boundary lines
PartText(p) ==
    LET nameParam == QuotedParam(NameEqQuote, p.name)
        fileParam == QuotedParam(FilenameEqQuote, PartFilename)
        params == CASE p.disp = "name" -> nameParam
                    [] p.disp = "name filename" -> nameParam \o fileParam
                    [] p.disp = "filename name" -> fileParam \o nameParam
                    [] p.disp = "filename" -> fileParam
                    [] p.disp = "none" -> <<>>
        disposition == IF p.disp = "none" THEN <<>>
                       ELSE ContentDispositionFormData \o params
        headers == IF p.ctype
                   THEN IF disposition = <<>> THEN ContentTypeTextPlain
                        ELSE disposition \o CRLF \o ContentTypeTextPlain
                   ELSE disposition
    IN  headers \o (IF p.sep THEN CRLFCRLF ELSE CRLF) \o PartBody \o CRLF

\* the payload: each part behind a boundary line, then the closing line
RECURSIVE MultipartPayload(_)
MultipartPayload(parts) ==
    IF parts = <<>> THEN DashDash \o Boundary \o DashDash \o CRLF
    ELSE DashDash \o Boundary \o CRLF \o PartText(parts[1])
            \o MultipartPayload(Tail(parts))

\* the bytes of the files a client uploads: NUL, LF, CR, '-', 'B' and two
\* bytes above 0x7F
FileBytes == {0, 10, 13, 45, 66, 233, 255}

\* the contents of a file: they do not hold the boundary line '--B'
FileContents ==
    {c \in StrUpTo(FileBytes, MaxFileLen) :
        IndexOf(c, BufferFrom(DashDash \o Boundary), 1) = 0}

\* the payload of an upload of one file: the boundary line and the headers
\* of the part as text, the bytes of the file, CRLF and the closing line
FilePartHeaders ==
    ContentDispositionFormData \o QuotedParam(NameEqQuote, <<"a">>)
        \o QuotedParam(FilenameEqQuote, PartFilename)
FilePayload(content) ==
    BufferFrom(DashDash \o Boundary \o CRLF \o FilePartHeaders \o CRLFCRLF)
        \o content
        \o BufferFrom(CRLF \o DashDash \o Boundary \o DashDash \o CRLF)

DecodeInit ==
    /\ RegistryInit
    /\ ExchangeInit
    /\ mIn \in [fn : {"parseURLEncoded"},
                bodyString : StrUpTo(FormChars, MaxFormLen)]
            \cup [fn : {"parseMultipart"},
                  parts : UNION {[1..k -> PartKinds] : k \in 1..MaxParts}]
            \cup [fn : {"parseFile"}, content : FileContents]
    /\ mOut = NoDecodeOut

\* parseMultipart(rawBody, boundary) is called on the upload of a file
CallParseMultipartFile ==
    /\ ~mOut.done
    /\ mIn.fn = "parseFile"
    /\ mOut' = [done |-> TRUE, threw |-> FALSE,
                v |-> parseMultipart(FilePayload(mIn.content), Boundary)]
    /\ UNCHANGED <<regVars, ex, mIn>>

\* parseMultipart(rawBody, boundary) is called
CallParseMultipart ==
    /\ ~mOut.done
    /\ mIn.fn = "parseMultipart"
    /\ mOut' = [done |-> TRUE, threw |-> FALSE,
                v |-> parseMultipart(BufferFrom(MultipartPayload(mIn.parts)),
                                     Boundary)]
    /\ UNCHANGED <<regVars, ex, mIn>>

\* parseURLEncoded(rawBody.toString()) is called
CallParseURLEncoded ==
    /\ ~mOut.done
    /\ mIn.fn = "parseURLEncoded"
    /\ LET r == parseURLEncoded(mIn.bodyString)
       IN  mOut' = [done |-> TRUE, threw |-> r.threw, v |-> r.v]
    /\ UNCHANGED <<regVars, ex, mIn>>

DecodeNext ==
    CallParseURLEncoded \/ CallParseMultipart \/ CallParseMultipartFile

SpecDecode == DecodeInit /\ [][DecodeNext]_vars

----------------------------------------------------------------------------
(* req.query: the query string of the request target goes through          *)
(* URL.searchParams, is written back as text and parsed by querystring     *)

\* '+' stands for a space in a query string
PlusToSpace(str) == [i \in 1..Len(str) |-> IF str[i] = "+" THEN " " ELSE str[i]]

\* one name=value piece cut at its first '='; a piece without '=' is a name
\* with an empty value
CutAtFirstEq(piece) ==
    LET i == IndexOf(piece, <<"=">>, 1)
    IN  IF i = 0 THEN [name |-> piece, value |-> <<>>]
        ELSE [name  |-> SubSeq(piece, 1, i - 1),
              value |-> SubSeq(piece, i + 1, Len(piece))]

\* parsedUrl.searchParams: the list of (name, value) entries of the query
\* string, empty pieces skipped, '+' read as a space
searchParams(search) ==
    LET NonEmpty(piece) == piece # <<>>
        pieces == SelectSeq(Split(search, <<"&">>), NonEmpty)
    IN  [i \in 1..Len(pieces) |->
            LET cut == CutAtFirstEq(pieces[i])
            IN  [name  |-> PlusToSpace(cut.name),
                 value |-> PlusToSpace(cut.value)]]

\* the text of a name or value in searchParams.toString(): a space is
\* written '+', '=' is written %3D, letters and digits stay
RECURSIVE Urlencode(_)
Urlencode(str) ==
    IF str = <<>> THEN <<>>
    ELSE (CASE str[1] = " " -> <<"+">>
            [] str[1] = "=" -> <<"%", "3", "D">>
            [] OTHER -> <<str[1]>>) \o Urlencode(Tail(str))

\* searchParams.toString(): name=value for every entry, joined by '&'
RECURSIVE searchParamsToString(_)
searchParamsToString(entries) ==
    IF entries = <<>> THEN <<>>
    ELSE Urlencode(entries[1].name) \o <<"=">> \o Urlencode(entries[1].value)
            \o (IF Len(entries) = 1 THEN <<>>
                ELSE <<"&">> \o searchParamsToString(Tail(entries)))

\* the loop of qs.parse from piece i on: a key seen for the first time gets
\* the string, a key seen again gets the array of all its values
RECURSIVE QsPairs(_, _, _)
QsPairs(pieces, i, result) ==
    IF i > Len(pieces) THEN result
    ELSE IF pieces[i] = <<>> THEN QsPairs(pieces, i + 1, result)
    ELSE LET cut   == CutAtFirstEq(pieces[i])
             key   == decodeURIComponent(PlusToSpace(cut.name)).v
             value == decodeURIComponent(PlusToSpace(cut.value)).v
             entry == IF key \notin DOMAIN result THEN Str(value)
                      ELSE IF result[key].t = "array"
                           THEN ArrayOf(Append(result[key].v, value))
                           ELSE ArrayOf(<<result[key].v, value>>)
         IN  QsPairs(pieces, i + 1, SetKey(result, key, entry))

\* qs.parse(str)
qsParse(str) == QsPairs(Split(str, <<"&">>), 1, NoParams)

\* Object.fromEntries(entries): every entry is assigned in turn
RECURSIVE fromEntries(_, _)
fromEntries(entries, result) ==
    IF entries = <<>> THEN result
    ELSE fromEntries(Tail(entries),
                     SetKey(result, entries[1].name, Str(entries[1].value)))

\* reqExt.query = qs.parse(parsedUrl.searchParams.toString() || "")
query(search) == qsParse(searchParamsToString(searchParams(search)))

\* reqExt.query = Object.fromEntries(parsedUrl.searchParams.entries())
queryV1(search) == fromEntries(searchParams(search), NoParams)

----------------------------------------------------------------------------
(* SpecQuery: req.query is computed for every query string within the      *)
(* bounds.                                                                 *)

\* the pieces a client puts between the '&' of a query string
QueryPieces ==
    {<<"a", "=", "1">>, <<"a", "=", "2">>, <<"b", "=", "1">>, <<"a">>,
     <<"a", "=", "1", "=", "2">>, <<"a", "=", "+">>, <<>>}

\* the pieces joined by '&'
RECURSIVE JoinPieces(_)
JoinPieces(pieces) ==
    IF pieces = <<>> THEN <<>>
    ELSE IF Len(pieces) = 1 THEN pieces[1]
    ELSE pieces[1] \o <<"&">> \o JoinPieces(Tail(pieces))

NoQueryOut == [done |-> FALSE, version |-> 0, v |-> NoParams]

QueryInit ==
    /\ RegistryInit
    /\ ExchangeInit
    /\ mIn \in [pieces : UNION {[1..k -> QueryPieces] : k \in 0..MaxQueryPairs}]
    /\ mOut = NoQueryOut

\* the request handler of createApp sets req.query
SetQuery ==
    /\ ~mOut.done
    /\ mOut' = [done |-> TRUE, version |-> 2,
                v |-> query(JoinPieces(mIn.pieces))]
    /\ UNCHANGED <<regVars, ex, mIn>>

\* the request handler of the first version sets req.query
SetQueryV1 ==
    /\ ~mOut.done
    /\ mOut' = [done |-> TRUE, version |-> 1,
                v |-> queryV1(JoinPieces(mIn.pieces))]
    /\ UNCHANGED <<regVars, ex, mIn>>

QueryNext == SetQuery \/ SetQueryV1

SpecQuery == QueryInit /\ [][QueryNext]_vars

----------------------------------------------------------------------------
(* SpecBody: an app with plain middlewares and routes behind the body      *)
(* parser serves one request that carries a content type and a payload,    *)
(* which the transport delivers chunk by chunk.                            *)

BodyReqMethods == {"GET", "POST", "PATCH"}
BodyPathname == <<"/", "a">>

\* 'multipart/form-data; boundary=B'
MultipartWithBoundary ==
    MultipartFormData \o <<";", " ">> \o BoundaryEq \o Boundary

\* a file part and a field part
SampleParts ==
    <<[disp |-> "name filename", name |-> <<"a">>, ctype |-> TRUE, sep |-> TRUE],
      [disp |-> "name", name |-> <<"b">>, ctype |-> FALSE, sep |-> TRUE]>>

\* a part without the blank line after its headers
MalformedParts ==
    <<[disp |-> "name", name |-> <<"a">>, ctype |-> FALSE, sep |-> FALSE]>>

\* the requests' content type and payload, the payload in chunks
Payloads ==
    {[contentType |-> ApplicationJson, chunks |-> <<<<"[">>, <<"1", "]">>>>],
     [contentType |-> ApplicationJson, chunks |-> <<<<"1", "1">>>>],
     [contentType |-> ApplicationJson, chunks |-> <<<<"{">>, <<"1">>>>],
     [contentType |-> ApplicationForm, chunks |-> <<<<"k", "=">>, <<"%", "4", "4">>>>],
     [contentType |-> ApplicationForm, chunks |-> <<<<"k", "=", "%">>>>],
     [contentType |-> MultipartWithBoundary,
      chunks |-> <<MultipartPayload(SampleParts)>>],
     [contentType |-> MultipartWithBoundary,
      chunks |-> <<MultipartPayload(MalformedParts)>>],
     [contentType |-> TextPlain, chunks |-> <<<<"k">>>>],
     [contentType |-> <<>>, chunks |-> <<>>]}

BodyRoute ==
    /\ AppSize < MaxServedEntries
    /\ \E m \in AppMethods : routeMethod("app", m, BodyPathname)
    /\ UNCHANGED exVars

BodyRequest ==
    \E e \in ExIds, m \in BodyReqMethods, p \in Payloads :
        appWith(e, m, BodyPathname, p.contentType,
                [c \in 1..Len(p.chunks) |-> BufferFrom(p.chunks[c])])

PayloadData == \E e \in ExIds : BodyData(e)

BodyNext ==
    \/ AppUse \/ BodyRoute \/ AppListen
    \/ BodyRequest \/ PayloadData \/ PayloadEnd \/ PayloadError
    \/ CallNext

SpecBody == Init /\ [][BodyNext]_vars

\* the transport leaves no payload unfinished: while the body parser is
\* reading, 'end' or 'error' is eventually delivered. The 'error' event can
\* occur exactly as long as the parser is reading, so its weak fairness
\* says that the reading does not last forever: either 'error' occurs, or
\* 'end' has occurred and has put an end to the reading.
SpecBodyLive == SpecBody /\ WF_vars(PayloadError)

----------------------------------------------------------------------------
(* Claims about matchPath, checked under SpecMatch *)

IsCapture(segment) == segment[1] = ":"

\* every literal pattern segment equals the request segment at its position
LiteralsAgree(ps, rs) ==
    \A i \in 1..Len(ps) : ~IsCapture(ps[i]) => ps[i] = rs[i]

\* the bindings a match must produce: each capture name is bound to the
\* request segment at the position of the name's rightmost occurrence
ExpectedParams(ps, rs) ==
    LET caps == {i \in 1..Len(ps) : IsCapture(ps[i])}
        last(name) == CHOOSE i \in caps :
                          /\ Tail(ps[i]) = name
                          /\ \A j \in caps : Tail(ps[j]) = name => j <= i
    IN  [name \in {Tail(ps[i]) : i \in caps} |-> rs[last(name)]]

MatchDone(v) == mOut.done /\ mOut.version = v

\* C4: for a pattern and a pathname with the same number of non-empty
\* segments, matchPath returns a match if and only if every pattern segment
\* that is not a capture equals the request segment at the same position.
C4_EqualCountMatchIffLiteralsAgree ==
    LET ps == Segments(mIn.routePath)
        rs == Segments(mIn.reqPath)
    IN  (MatchDone(2) /\ Len(ps) = Len(rs))
            => (mOut.matched <=> LiteralsAgree(ps, rs))

\* The first version of matchPath (split and filter) has the property of C4.
FirstVersionEqualCountMatchIffLiteralsAgree ==
    LET ps == Segments(mIn.routePath)
        rs == Segments(mIn.reqPath)
    IN  (MatchDone(1) /\ Len(ps) = Len(rs))
            => (mOut.matched <=> LiteralsAgree(ps, rs))

\* What the current matchPath does on equal segment counts: a match if and
\* only if the literals agree and, besides, either both paths end in '/' or
\* neither does, and the pattern is not the empty string against a pathname
\* made of slashes only (or the other way round).
EndsInSlash(path) == path # <<>> /\ path[Len(path)] = "/"

EqualCountMatchIffLiteralsAgreeAndSameEnding ==
    LET ps == Segments(mIn.routePath)
        rs == Segments(mIn.reqPath)
    IN  (MatchDone(2) /\ Len(ps) = Len(rs))
            => (mOut.matched <=>
                    /\ LiteralsAgree(ps, rs)
                    /\ EndsInSlash(mIn.routePath) <=> EndsInSlash(mIn.reqPath))

\* C5: when the numbers of non-empty segments of the pattern and of the
\* pathname differ, matchPath returns no match, wherever the captures are.
C5_CountMismatchNeverMatches ==
    (MatchDone(2) /\ Len(Segments(mIn.routePath)) # Len(Segments(mIn.reqPath)))
        => ~mOut.matched

\* C5's case: a pattern holding a capture, called with a pathname that has
\* one segment more.
C5_Witness ==
    LET ps == Segments(mIn.routePath)
        rs == Segments(mIn.reqPath)
    IN  /\ MatchDone(2)
        /\ Len(rs) = Len(ps) + 1
        /\ \E i \in 1..Len(ps) : IsCapture(ps[i])
        /\ ~mOut.matched

\* C8: on a match the params hold exactly the capture names of the pattern,
\* each bound to the request segment at the same position, the rightmost
\* occurrence of a repeated name giving the value.
C8_ParamsAreTheCaptureBindings ==
    LET ps == Segments(mIn.routePath)
        rs == Segments(mIn.reqPath)
    IN  (MatchDone(2) /\ mOut.matched)
            => /\ Len(ps) = Len(rs)
               /\ mOut.params = ExpectedParams(ps, rs)

\* C8's case: a pattern with the same capture name twice matched against
\* two different segments; the second is the one bound.
C8_Witness ==
    LET ps == Segments(mIn.routePath)
        rs == Segments(mIn.reqPath)
    IN  /\ MatchDone(2)
        /\ mOut.matched
        /\ Len(ps) = 2 /\ Len(rs) = 2
        /\ ps[1] = <<":", "a">> /\ ps[2] = <<":", "a">>
        /\ rs[1] # rs[2]
        /\ mOut.params = [name \in {<<"a">>} |-> rs[2]]

----------------------------------------------------------------------------
(* Claims about the pipeline and the dispatch, checked under Spec *)

NumMiddlewares == Len(middlewares["app"])

\* the slots of the middleware invocations among the first n log entries
MwSlotsBefore(x, n) ==
    LET IsMw(ev) == ev.t = "mw"
        mws == SelectSeq(SubSeq(x.log, 1, n), IsMw)
    IN  [j \in 1..Len(mws) |-> mws[j].i]

\* no slot has called the continuation more than once
SingleInvocation(x) == \A i \in 1..x.idx : CallsBy(x, i) <= 1

\* every slot has called the continuation exactly once, none with an error
AllContinuedOnce(x) ==
    /\ x.idx = NumMiddlewares
    /\ \A i \in 1..NumMiddlewares : CallsBy(x, i) = 1
    /\ Logged(x, "nextErr") = {}

\* C1: the middlewares are invoked in list order, each once, and all N of
\* them before route matching starts; when every middleware has called the
\* continuation exactly once with no error, route matching has started.
C1_AllMiddlewaresInOrderBeforeMatching ==
    \A e \in ExIds :
        LET x == ex[e]
        IN  /\ MwSlotsBefore(x, Len(x.log)) = [i \in 1..x.idx |-> i]
            /\ \A p \in Logged(x, "match") :
                  MwSlotsBefore(x, p) = [i \in 1..NumMiddlewares |-> i]
            /\ AllContinuedOnce(x) => Cardinality(Logged(x, "match")) = 1

\* C1's case: the body parser, a handler and a wrapper whose gate fails
\* have each continued once, and matching has run after the three of them.
C1_Witness ==
    \E e \in ExIds :
        /\ ex[e].active
        /\ NumMiddlewares >= 3
        /\ AllContinuedOnce(ex[e])
        /\ Logged(ex[e], "pass") # {}
        /\ Logged(ex[e], "fn") # {}
        /\ Logged(ex[e], "match") # {}

\* what C2 says of an error call logged at p
ErrorStopsAt(x, p) ==
    /\ \A q \in Logged(x, "mw") : x.log[q].i <= x.log[p].i
    /\ Logged(x, "match") = {}
    /\ Logged(x, "route") = {}
    /\ Logged(x, "404") = {}
    /\ x.res = [statusCode |-> 500, ends |-> <<"Internal Server Error">>]

\* C2 as stated: when the middleware at position k calls the continuation
\* with an error, no middleware at positions k+1..N is invoked, route
\* matching is never performed, no route handler runs, and the response is
\* ended with status 500 and body "Internal Server Error".
C2_Original_ErrorStopsThePipeline ==
    \A e \in ExIds : \A p \in Logged(ex[e], "nextErr") : ErrorStopsAt(ex[e], p)

\* C2 amended: the same, in an exchange in which no middleware calls the
\* continuation more than once.
C2_ErrorStopsThePipelineUnderSingleInvocation ==
    \A e \in ExIds : \A p \in Logged(ex[e], "nextErr") :
        SingleInvocation(ex[e]) => ErrorStopsAt(ex[e], p)

\* C2's case: a handler behind the body parser and another middleware has
\* called next(err), every slot having called once.
C2_Witness ==
    \E e \in ExIds : \E p \in Logged(ex[e], "nextErr") :
        /\ SingleInvocation(ex[e])
        /\ ex[e].log[p].i >= 2
        /\ ex[e].log[p].i < NumMiddlewares
        /\ ex[e].res.statusCode = 500

\* what C3 says of a response logged at p
ShortCircuitStopsAt(x, p) ==
    /\ \A q \in Logged(x, "mw") : x.log[q].i <= x.log[p].i
    /\ Logged(x, "match") = {}
    /\ Logged(x, "route") = {}
    /\ Logged(x, "404") = {}
    /\ Logged(x, "500") = {}

\* C3 as stated: if the middleware at position k writes a response and never
\* calls the continuation, no middleware at a later position is invoked,
\* route matching never runs, and the pipeline writes neither 404 nor 500.
C3_Original_ShortCircuitStopsThePipeline ==
    \A e \in ExIds : \A p \in Logged(ex[e], "respond") :
        ShortCircuitStopsAt(ex[e], p)

\* C3 amended: the same, in an exchange in which no middleware calls the
\* continuation more than once.
C3_ShortCircuitStopsThePipelineUnderSingleInvocation ==
    \A e \in ExIds : \A p \in Logged(ex[e], "respond") :
        SingleInvocation(ex[e]) => ShortCircuitStopsAt(ex[e], p)

\* C3's case: a handler with a later middleware behind it has ended the
\* response itself, every earlier slot having called once.
C3_Witness ==
    \E e \in ExIds : \E p \in Logged(ex[e], "respond") :
        /\ SingleInvocation(ex[e])
        /\ ex[e].log[p].i < NumMiddlewares
        /\ ex[e].res = [statusCode |-> 204, ends |-> <<"">>]

\* the routes that have the request's method and a pattern matching its
\* pathname
RouteHits(x) ==
    {k \in 1..Len(routes["app"]) :
        /\ routes["app"][k].method = x.method
        /\ matchPath(routes["app"][k].path, x.pathname).matched}

\* C6: of the routes that have the request's method and match the pathname,
\* the one invoked is the first in the table, and each run of the matcher
\* invokes one handler only.
C6_FirstRegisteredRouteWins ==
    \A e \in ExIds :
        LET x == ex[e]
        IN  \A p \in Logged(x, "route") :
                /\ x.log[p].i \in RouteHits(x)
                /\ \A h \in RouteHits(x) : x.log[p].i <= h
                /\ p > 1 /\ x.log[p - 1].t = "match"

\* C6's case: a literal route and a capture route both match, and so do two
\* identical routes; the first of the table was invoked.
C6_Witness ==
    \E e \in ExIds :
        LET x == ex[e]
        IN  /\ Logged(x, "route") # {}
            /\ \E k, h, d \in RouteHits(x) :
                  /\ k < h /\ h < d
                  /\ routes["app"][k].path = routes["app"][h].path
                  /\ routes["app"][h].path # routes["app"][d].path
                  /\ \A p \in Logged(x, "route") : x.log[p].i = k

\* C7: a run of the matcher ends with 404 "Not Found" if and only if no
\* route has both the request's method and a matching pattern; otherwise it
\* invokes exactly one route handler, of a route with the request's method.
C7_NotFoundIffNoRouteHits ==
    \A e \in ExIds :
        LET x == ex[e]
        IN  /\ \A p \in Logged(x, "match") :
                  /\ p < Len(x.log)
                  /\ x.log[p + 1].t = "404" <=> RouteHits(x) = {}
                  /\ RouteHits(x) # {} =>
                        /\ x.log[p + 1].t = "route"
                        /\ routes["app"][x.log[p + 1].i].method = x.method
                        /\ p + 2 <= Len(x.log) => x.log[p + 2].t # "route"
            /\ \A p \in Logged(x, "404") :
                  /\ p > 1 /\ x.log[p - 1].t = "match"
                  /\ p = Len(x.log) =>
                        /\ x.res.statusCode = 404
                        /\ x.res.ends[Len(x.res.ends)] = "Not Found"

\* C7's case: the only route whose pattern matches the pathname has another
\* method, and the exchange ended with 404.
C7_Witness ==
    \E e \in ExIds :
        LET x == ex[e]
        IN  /\ Logged(x, "404") # {}
            /\ x.res = [statusCode |-> 404, ends |-> <<"Not Found">>]
            /\ \E k \in 1..Len(routes["app"]) :
                  /\ routes["app"][k].method # x.method
                  /\ matchPath(routes["app"][k].path, x.pathname).matched

----------------------------------------------------------------------------
(* Claims about registration and mounting, checked under SpecReg *)

\* the call app.use(prefix, router), as a step
MountCall(prefix) == use("app", StrArg(prefix), RouterArg("router"))

\* the parent's routes that a mount added: those past its old length
AddedRoute(i) == routes'["app"][Len(routes["app"]) + i]

\* C9: mounting a sub-router at prefix p adds, for each of its routes with
\* path r, a parent route with the same method and handler and with path
\* p+r, except that a sub-router route whose path is exactly '/' becomes the
\* parent route p.
C9_MountAddsPrefixedRoutes ==
    [][\A p \in RegPrefixes :
          MountCall(p) =>
              /\ Len(routes'["app"])
                    = Len(routes["app"]) + Len(routes["router"])
              /\ \A i \in 1..Len(routes["router"]) :
                    LET r == routes["router"][i]
                    IN  /\ AddedRoute(i).method = r.method
                        /\ AddedRoute(i).handler = r.handler
                        /\ AddedRoute(i).path =
                              IF r.path = <<"/">> THEN p ELSE p \o r.path]_vars

\* C9's case: a router holding the routes '/b' and '/' has been mounted at
\* '/a'; the parent holds '/a/b' and '/a' with the router's handlers.
C9_Witness ==
    /\ mounted
    /\ \E i, j \in 1..Len(routes["app"]) :
          /\ routes["app"][i].path = <<"/", "a", "/", "b">>
          /\ routes["app"][i].handler.o = "router"
          /\ routes["app"][j].path = <<"/", "a">>
          /\ routes["app"][j].handler.o = "router"

\* a step that changes the sub-router's own arrays
SubRouterChanges ==
    \/ routes'["router"] # routes["router"]
    \/ middlewares'["router"] # middlewares["router"]

\* C10: once app.use(prefix, router) has returned, a later registration
\* call on the sub-router leaves the parent's route table and middleware
\* list unchanged.
C10_MountIsASnapshot ==
    [][(mounted /\ SubRouterChanges) =>
          /\ routes'["app"] = routes["app"]
          /\ middlewares'["app"] = middlewares["app"]]_vars

\* the handlers of an owner's routes, and of its middlewares
RouteHandlers(o) == {routes[o][i].handler : i \in 1..Len(routes[o])}
MiddlewareHandlers(o) == {middlewares[o][i].h : i \in 1..Len(middlewares[o])}

\* C10's case: after the mount the router was given a route and a
\* middleware that the parent does not hold.
C10_Witness ==
    /\ mounted
    /\ RouteHandlers("router") \ RouteHandlers("app") # {}
    /\ MiddlewareHandlers("router") \ MiddlewareHandlers("app") # {}
    /\ RouteHandlers("router") \cap RouteHandlers("app") # {}

----------------------------------------------------------------------------
(* Claims about the path gates, checked under SpecMount *)

\* p is a prefix of s, character by character
IsPrefix(p, s) == \E k \in 0..Len(s) : SubSeq(s, 1, k) = p

\* the positions of the log where slot i did something of kind t
LoggedBy(x, t, i) == {p \in Logged(x, t) : x.log[p].i = i}

\* the slots of the exchange that have been invoked and are gated
GatedSlots(x) ==
    {i \in 1..x.idx : middlewares["app"][i].gates # <<>>}

\* C11: a gated slot (a handler registered with use(prefix, handler), or a
\* middleware of a router mounted at prefix) invokes its handler if and only
\* if the pathname starts with every prefix in front of it; when it does
\* not, the slot calls the continuation exactly once, with no error, and
\* the stage after it has run.
C11_GatedSlotRunsIffPathnameStartsWithPrefix ==
    \A e \in ExIds :
        LET x == ex[e]
        IN  \A i \in GatedSlots(x) :
                LET gates == middlewares["app"][i].gates
                    open  == \A g \in 1..Len(gates) : IsPrefix(gates[g], x.pathname)
                IN  /\ Cardinality(LoggedBy(x, "mw", i)) = 1
                    /\ LoggedBy(x, "fn", i) # {} <=> open
                    /\ ~open =>
                          /\ Cardinality(LoggedBy(x, "pass", i)) = 1
                          /\ LoggedBy(x, "next", i) = {}
                          /\ LoggedBy(x, "nextErr", i) = {}
                          /\ IF i < NumMiddlewares
                             THEN LoggedBy(x, "mw", i + 1) # {}
                             ELSE Logged(x, "match") # {}
                    /\ open => LoggedBy(x, "pass", i) = {}

\* C11's case: the pathname '/b' met a middleware of a router mounted at
\* '/a' and a handler registered on the app with use('/a', handler); both
\* slots passed the request on, and a later slot and the matcher ran.
C11_Witness ==
    \E e \in ExIds :
        LET x == ex[e]
        IN  /\ mounted
            /\ x.pathname = <<"/", "b">>
            /\ \E i, j \in GatedSlots(x) :
                  /\ i < j
                  /\ middlewares["app"][i].h.o # middlewares["app"][j].h.o
                  /\ middlewares["app"][i].gates = <<<<"/", "a">>>>
                  /\ middlewares["app"][j].gates = <<<<"/", "a">>>>
                  /\ LoggedBy(x, "fn", i) = {} /\ LoggedBy(x, "fn", j) = {}
                  /\ LoggedBy(x, "pass", i) # {} /\ LoggedBy(x, "pass", j) # {}
            /\ Logged(x, "match") # {}

----------------------------------------------------------------------------
(* Claims about the decoders, checked under SpecDecode *)

\* the pair cut at its first '=' only
KeyOfPair(pair)   == SubSeq(pair, 1, IndexOf(pair, <<"=">>, 1) - 1)
ValueOfPair(pair) == SubSeq(pair, IndexOf(pair, <<"=">>, 1) + 1, Len(pair))

\* the mapping C15 describes, for pairs that all hold an '=' and escapes
\* that are all well formed: the last pair of a key gives its value
FormMapping(pairs) ==
    LET key(i)  == decodeURIComponent(KeyOfPair(pairs[i])).v
        lastOf(k) == CHOOSE i \in 1..Len(pairs) :
                        key(i) = k /\ \A j \in 1..Len(pairs) : key(j) = k => j <= i
    IN  [k \in {key(i) : i \in 1..Len(pairs)} |->
            Str(decodeURIComponent(ValueOfPair(pairs[lastOf(k)])).v)]

\* the payloads C15 speaks of: every pair has a key, an '=' and escapes
\* that decode
FormWellFormed(pairs) ==
    \A i \in 1..Len(pairs) :
        /\ IndexOf(pairs[i], <<"=">>, 1) > 0
        /\ ~decodeURIComponent(KeyOfPair(pairs[i])).threw
        /\ ~decodeURIComponent(ValueOfPair(pairs[i])).threw

\* C15: the body of a form payload is the mapping obtained by splitting on
\* '&', cutting each pair at its first '=' only, percent-decoding key and
\* value, the last pair winning for a repeated key.
C15_FormBodyCutsAtFirstEquals ==
    LET pairs == Split(mIn.bodyString, <<"&">>)
    IN  (mOut.done /\ mIn.fn = "parseURLEncoded" /\ FormWellFormed(pairs))
            => (~mOut.threw /\ mOut.v = FormMapping(pairs))

\* What parseURLEncoded does with a pair: the value is the text between the
\* first and the second '=', what follows the second '=' is dropped.
ValueUpToSecondEquals(pair) == Split(pair, <<"=">>)[2]

FormBodyCutsAtEveryEquals ==
    LET pairs == Split(mIn.bodyString, <<"&">>)
        key(i)  == decodeURIComponent(KeyOfPair(pairs[i])).v
        lastOf(k) == CHOOSE i \in 1..Len(pairs) :
                        key(i) = k /\ \A j \in 1..Len(pairs) : key(j) = k => j <= i
    IN  (mOut.done /\ mIn.fn = "parseURLEncoded" /\ FormWellFormed(pairs))
            => /\ ~mOut.threw
               /\ mOut.v = [k \in {key(i) : i \in 1..Len(pairs)} |->
                     Str(decodeURIComponent(
                            ValueUpToSecondEquals(pairs[lastOf(k)])).v)]

\* a part with the blank line and a name parameter
WellFormedPart(p) == p.sep /\ p.disp \in {"name", "name filename", "filename name"}
HasFilename(p) == p.disp \in {"name filename", "filename name", "filename"}

\* the mappings C16 describes for a payload: one entry per name of a
\* well-formed part, of the last such part
ExpectedFiles(parts) ==
    LET own == {i \in 1..Len(parts) : WellFormedPart(parts[i]) /\ HasFilename(parts[i])}
        lastOf(n) == CHOOSE i \in own :
                        parts[i].name = n /\ \A j \in own : parts[j].name = n => j <= i
    IN  [n \in {parts[i].name : i \in own} |->
            [filename    |-> PartFilename,
             contentType |-> IF parts[lastOf(n)].ctype THEN TextPlain ELSE OctetStream,
             data        |-> BufferFrom(PartBody)]]

ExpectedFields(parts) ==
    LET own == {i \in 1..Len(parts) : WellFormedPart(parts[i]) /\ ~HasFilename(parts[i])}
    IN  [n \in {parts[i].name : i \in own} |-> PartBody]

MultipartDone == mOut.done /\ mIn.fn = "parseMultipart"

\* C16: of a payload of well-formed parts, every part with a filename is in
\* files under its name, with that filename and its own content type or
\* 'application/octet-stream', every part without one is in the fields
\* under its name with its body block less the trailing CRLF, and no part is
\* in both.
C16_WellFormedPartsGoToFilesOrFields ==
    (MultipartDone /\ \A i \in 1..Len(mIn.parts) : WellFormedPart(mIn.parts[i]))
        => /\ mOut.v.files = ExpectedFiles(mIn.parts)
           /\ mOut.v.fields = ExpectedFields(mIn.parts)

\* What parseMultipart does: C16 holds of the payloads whose parts put the
\* name parameter in front of the filename parameter.
NameFirstPartsGoToFilesOrFields ==
    (MultipartDone /\ \A i \in 1..Len(mIn.parts) :
                        /\ WellFormedPart(mIn.parts[i])
                        /\ mIn.parts[i].disp # "filename name")
        => /\ mOut.v.files = ExpectedFiles(mIn.parts)
           /\ mOut.v.fields = ExpectedFields(mIn.parts)

\* the parts of a payload that are well formed, in their order
WellFormedOnly(parts) == SelectSeq(parts, WellFormedPart)

\* C17: a part without the blank line, or without a name parameter (a part
\* with a filename parameter only included), adds nothing: the payload is
\* decoded as it is without such parts.
C17_MalformedPartsAddNothing ==
    MultipartDone
        => mOut.v = parseMultipart(
                        BufferFrom(MultipartPayload(WellFormedOnly(mIn.parts))),
                        Boundary)

\* What parseMultipart does: C17 holds of the payloads that have no part
\* with a filename parameter and no name parameter.
MalformedPartsWithoutLoneFilenameAddNothing ==
    (MultipartDone /\ \A i \in 1..Len(mIn.parts) :
                        mIn.parts[i].sep => mIn.parts[i].disp # "filename")
        => mOut.v = parseMultipart(
                        BufferFrom(MultipartPayload(WellFormedOnly(mIn.parts))),
                        Boundary)

----------------------------------------------------------------------------
(* Claims about the body parser in the pipeline, checked under SpecBody *)

\* the methods with a payload, as the claims name them
PayloadMethods == {"POST", "PUT", "PATCH"}

\* the payload of the request: what was pushed and what is still to come
WholePayload(x) == Concat(x.bodyData) \o Concat(x.pending)

\* a stage behind the body parser has run
LaterStageRan(x) ==
    \/ \E p \in Logged(x, "mw") : x.log[p].i >= 2
    \/ Logged(x, "fn") # {}
    \/ Logged(x, "match") # {}
    \/ Logged(x, "route") # {}

\* the position of the transport's end event in the log
EndLogged(x) == Logged(x, "end")

\* what the 'end' listener makes of the whole payload
DecodedWhole(x) ==
    DecodeBody(x.contentType, WholePayload(x), EmptyMapping, EmptyMapping)

\* C12: for a POST, PUT or PATCH request no middleware behind the body
\* parser and no route handler is invoked before the transport's end event,
\* when the whole payload has been pushed and req.body and req.files hold
\* the decoded values.
C12_LaterStagesWaitForTheDecodedPayload ==
    \A e \in ExIds :
        LET x == ex[e]
        IN  (x.active /\ x.method \in PayloadMethods /\ LaterStageRan(x))
                => /\ EndLogged(x) # {}
                   /\ x.pending = <<>>
                   /\ x.body = DecodedWhole(x).body
                   /\ x.files = DecodedWhole(x).files
                   /\ \A p \in 1..Len(x.log) :
                         (\/ x.log[p].t \in {"fn", "match", "route"}
                          \/ x.log[p].t = "mw" /\ x.log[p].i >= 2)
                            => \A q \in EndLogged(x) : q < p

\* C12's case: a POST whose JSON payload came in two chunks has reached a
\* middleware behind the body parser, with the parsed array as its body.
C12_Witness ==
    \E e \in ExIds :
        LET x == ex[e]
        IN  /\ x.active /\ x.method = "POST"
            /\ Len(x.bodyData) = 2
            /\ x.body.t = "array" /\ x.body.v = <<NumberOf(1)>>
            /\ \E p \in Logged(x, "mw") : x.log[p].i = 2

\* C13: for a request whose method is not POST, PUT or PATCH the body
\* parser leaves req.body and req.files empty mappings whatever the content
\* type and the payload are, reads nothing of the payload, and calls the
\* continuation exactly once, with no error.
C13_OtherMethodsGetEmptyBodyAndFiles ==
    \A e \in ExIds :
        LET x == ex[e]
        IN  (x.active /\ x.method \notin PayloadMethods /\ x.idx >= 1)
                => /\ x.body = EmptyMapping
                   /\ x.files = EmptyMapping
                   /\ x.bodyData = <<>>
                   /\ x.bp = "idle"
                   /\ Logged(x, "end") = {} /\ Logged(x, "error") = {}
                   /\ Cardinality(LoggedBy(x, "next", 1)) = 1
                   /\ LoggedBy(x, "nextErr", 1) = {}

\* C13's case: a GET with content type application/json and a payload of
\* two chunks has gone through the body parser to the matcher.
C13_Witness ==
    \E e \in ExIds :
        LET x == ex[e]
        IN  /\ x.active /\ x.method = "GET"
            /\ x.contentType = ApplicationJson
            /\ Len(x.pending) = 2
            /\ x.body = EmptyMapping
            /\ Logged(x, "match") # {}

\* C14: for a POST, PUT or PATCH request with content type application/json
\* a payload that is valid JSON gives req.body the parsed value, one that is
\* not gives it an empty mapping; either way the continuation is called
\* with no error and the next stage runs, with no 500.
C14_JsonBodyIsParsedOrEmpty ==
    \A e \in ExIds :
        LET x == ex[e]
            text == Utf8String(WholePayload(x))
        IN  (/\ x.active /\ x.method \in PayloadMethods
             /\ x.contentType = ApplicationJson
             /\ Logged(x, "end") # {})
                => /\ x.body = IF JSONValid(text) THEN JSONValue(text)
                                ELSE EmptyMapping
                   /\ Cardinality(LoggedBy(x, "next", 1)) = 1
                   /\ LoggedBy(x, "nextErr", 1) = {}
                   /\ Logged(x, "500") = {}
                   /\ x.res.statusCode # 500
                   /\ LaterStageRan(x)

\* C14's case: the payload '{1' of a PATCH is not JSON; the body is an empty
\* mapping and the route handler has been invoked.
C14_Witness ==
    \E e \in ExIds :
        LET x == ex[e]
        IN  /\ x.active /\ x.method = "PATCH"
            /\ x.contentType = ApplicationJson
            /\ Utf8String(Concat(x.bodyData)) = <<"{", "1">>
            /\ x.body = EmptyMapping
            /\ Logged(x, "match") # {}

\* C18: when the transport reports a read error while the body parser is
\* accumulating the payload, the parser calls the continuation with the
\* error: the response is the fixed 500 and no later middleware and no route
\* handler is invoked.
C18_TransportErrorGives500 ==
    \A e \in ExIds :
        LET x == ex[e]
        IN  Logged(x, "error") # {}
                => /\ x.method \in PayloadMethods
                   /\ Cardinality(LoggedBy(x, "nextErr", 1)) = 1
                   /\ LoggedBy(x, "next", 1) = {}
                   /\ x.res = [statusCode |-> 500,
                               ends |-> <<"Internal Server Error">>]
                   /\ ~LaterStageRan(x)
                   /\ Logged(x, "404") = {}

\* C18's case: the error came after the first of two chunks, in an app that
\* has a middleware behind the body parser and a route for the request.
C18_Witness ==
    \E e \in ExIds :
        LET x == ex[e]
        IN  /\ Logged(x, "error") # {}
            /\ Len(x.bodyData) = 1 /\ Len(x.pending) = 1
            /\ NumMiddlewares >= 2
            /\ RouteHits(x) # {}
            /\ x.res.statusCode = 500

\* the use calls the claim names invalid: a string path with no second
\* argument, a string path with an object that is no router, and a first
\* argument that is neither a string nor a function
InvalidUse(o, p) ==
    \/ use(o, StrArg(p), Undefined)
    \/ use(o, StrArg(p), ObjectArg)
    \/ use(o, ObjectArg, FnArg)

EqPositions(piece) == {i \in 1..Len(piece) : piece[i] = "="}
FirstEq(piece) ==
    IF EqPositions(piece) = {} THEN Len(piece) + 1
    ELSE CHOOSE i \in EqPositions(piece) : \A j \in EqPositions(piece) : i <= j
NameOfPiece(piece) == PlusToSpace(SubSeq(piece, 1, FirstEq(piece) - 1))
ValueOfPiece(piece) == PlusToSpace(SubSeq(piece, FirstEq(piece) + 1, Len(piece)))

\* the occurrences of a key in the query string of the request, in order
Occurrences(k) ==
    LET Named(piece) == piece # <<>> /\ NameOfPiece(piece) = k
    IN  SelectSeq(mIn.pieces, Named)
QueryKeys ==
    {NameOfPiece(mIn.pieces[i]) :
        i \in {j \in 1..Len(mIn.pieces) : mIn.pieces[j] # <<>>}}
LastWinsQuery ==
    [k \in QueryKeys |->
        Str(ValueOfPiece(Occurrences(k)[Len(Occurrences(k))]))]

\* C20: req.query maps every key of the query string to a single string,
\* the value of the key's last occurrence.
C20_QueryIsStringPerKeyLastWins ==
    (mOut.done /\ mOut.version = 2) => mOut.v = LastWinsQuery

\* The first version of the request handler has the property of C20.
FirstVersionQueryIsStringPerKeyLastWins ==
    (mOut.done /\ mOut.version = 1) => mOut.v = LastWinsQuery

\* What the current request handler stores: the string for a key that
\* occurs once, the array of all its values in order for a key that occurs
\* several times.
QueryKeepsEveryOccurrence ==
    (mOut.done /\ mOut.version = 2) =>
        mOut.v = [k \in QueryKeys |->
                    LET occ == Occurrences(k)
                    IN  IF Len(occ) = 1 THEN Str(ValueOfPiece(occ[1]))
                        ELSE ArrayOf([i \in 1..Len(occ) |->
                                        ValueOfPiece(occ[i])])]

----------------------------------------------------------------------------
(* Claims about interleaved exchanges, checked under SpecConc *)

\* what an exchange shows when it ran alone: its middlewares invoked in
\* list order from the first one, each once, up to its cursor; the handlers
\* invoked are those whose gates its own pathname passes; its params, when
\* bound, are the captures of a route of its own method against its own
\* pathname
RanAsIfAlone(x) ==
    /\ x.idx <= NumMiddlewares
    /\ MwSlotsBefore(x, Len(x.log)) = [i \in 1..x.idx |-> i]
    /\ \A i \in 2..x.idx :
          (LoggedBy(x, "fn", i) # {})
              <=> GatesPass(middlewares["app"][i], x.pathname)
    /\ x.params.set =>
          \E p \in Logged(x, "route") :
              LET r == routes["app"][x.log[p].i]
              IN  /\ r.method = x.method
                  /\ x.params.val = matchPath(r.path, x.pathname).params

\* C21: cursor, params, body and files belong to one exchange: in every
\* interleaving of two exchanges each one sees its own middlewares in
\* registration order as if it ran alone, and a step of one exchange
\* (a continuation call, a transport event) changes nothing of the other.
C21_ExchangesDoNotShareState ==
    [][/\ \A e \in ConcIds : RanAsIfAlone(ex'[e])
       /\ \A e1, e2 \in ConcIds :
             e1 # e2 => (ex'[e1] = ex[e1] \/ ex'[e2] = ex[e2])]_vars

\* two exchanges are under way at different cursors: the first is held by
\* a middleware, the second has gone past it and reached its route handler
\* with its captures bound, while the first has no params yet
C21_Witness ==
    /\ ex[1].active /\ ex[2].active
    /\ ex[1].idx = 2 /\ CallsBy(ex[1], 2) = 0 /\ 2 \in ex[1].live
    /\ ~ex[1].params.set
    /\ CallsBy(ex[2], 2) = 1
    /\ Logged(ex[2], "route") # {}
    /\ ex[2].params.set /\ ex[2].params.val # NoParams
    /\ ex[1].pathname # ex[2].pathname

----------------------------------------------------------------------------
(* Claims about the termination of the body parser, checked under          *)
(* SpecBodyLive                                                            *)

\* the body parser is waiting for the payload of the exchange
Reading(e) == ex[e].active /\ ex[e].bp = "reading"

\* the body parser has called the continuation, once
ContinuedOnce(e) == CallsBy(ex[e], 1) = 1

\* C22: for every content type and payload, once the transport has
\* delivered end or error the body parser calls the continuation, and it
\* calls it exactly once.
C22_DecoderAlwaysContinuesOnce ==
    \A e \in ExIds :
        /\ [](CallsBy(ex[e], 1) <= 1)
        /\ Reading(e) ~> ContinuedOnce(e)

\* the payload is a form whose percent-encoding decodeURIComponent rejects
MalformedFormEscape(e) ==
    /\ ~Includes(ex[e].contentType, ApplicationJson)
    /\ Includes(ex[e].contentType, ApplicationForm)
    /\ parseURLEncoded(Utf8String(WholePayload(ex[e]))).threw

\* What the body parser does: it continues exactly once for every payload
\* but a form with a malformed percent-encoding.
DecoderContinuesOnceUnlessFormEscapeIsMalformed ==
    \A e \in ExIds :
        /\ [](CallsBy(ex[e], 1) <= 1)
        /\ (Reading(e) /\ ~MalformedFormEscape(e)) ~> ContinuedOnce(e)

\* With such a form the 'end' listener throws and the continuation is never
\* called, however long the exchange lasts.
MalformedFormEscapeNeverContinuesAfterEnd ==
    \A e \in ExIds :
        (MalformedFormEscape(e) /\ EndLogged(ex[e])) => CallsBy(ex[e], 1) = 0

----------------------------------------------------------------------------
(* Claims about slashes in matchPath, checked under SpecMatch *)

\* the path with one '/' before each of its non-empty segments and no other
RECURSIVE JoinSegments(_)
JoinSegments(segments) ==
    IF segments = <<>> THEN <<>>
    ELSE <<"/">> \o segments[1] \o JoinSegments(Tail(segments))
WithoutEmptySegments(path) == JoinSegments(Segments(path))

\* the same, with the '/' at the end of the path kept
WithoutEmptySegmentsButTheLast(path) ==
    WithoutEmptySegments(path) \o (IF EndsInSlash(path) THEN <<"/">> ELSE <<>>)

MatchResult == [matched |-> mOut.matched, params |-> mOut.params]

\* C23: matchPath ignores empty segments: its result for a pattern and a
\* pathname is its result for the same two paths without their leading,
\* trailing and duplicate '/' characters.
C23_MatchIgnoresEmptySegments ==
    MatchDone(2) =>
        MatchResult = matchPath(WithoutEmptySegments(mIn.routePath),
                                WithoutEmptySegments(mIn.reqPath))

\* The first version of matchPath (split and filter) has the property of
\* C23.
FirstVersionMatchIgnoresEmptySegments ==
    MatchDone(1) =>
        MatchResult = matchPathV1(WithoutEmptySegments(mIn.routePath),
                                  WithoutEmptySegments(mIn.reqPath))

\* What the current matchPath ignores: leading and duplicate '/'
\* characters, but not a '/' at the end of the pattern or of the pathname.
MatchIgnoresLeadingAndDuplicateSlashes ==
    MatchDone(2) =>
        MatchResult = matchPath(WithoutEmptySegmentsButTheLast(mIn.routePath),
                                WithoutEmptySegmentsButTheLast(mIn.reqPath))

----------------------------------------------------------------------------
(* Claims about req.params and the cursor, checked under Spec *)

\* the exchange has ended with a status the pipeline wrote
EndedWith(x, status) == Logged(x, status) # {}

\* C24: when every middleware calls the continuation at most once,
\* req.params is not assigned before route matching, is never assigned in
\* an exchange that ends in 404 or 500, and when a route handler is invoked
\* it is exactly the capture bindings of the winning route.
C24_ParamsAreTheWinningRoutesCaptures ==
    \A e \in ExIds :
        LET x == ex[e]
        IN  SingleInvocation(x) =>
                /\ Logged(x, "match") = {} => ~x.params.set
                /\ (EndedWith(x, "404") \/ EndedWith(x, "500")) => ~x.params.set
                /\ \A p \in Logged(x, "route") :
                      /\ x.params.set
                      /\ x.params.val =
                            ExpectedParams(
                                Segments(routes["app"][x.log[p].i].path),
                                Segments(x.pathname))

\* C24's case: the winning route has a capture and stands behind a route of
\* another method and a route of another path; its handler was invoked
\* after two middlewares
C24_Witness ==
    \E e \in ExIds :
        LET x == ex[e]
        IN  /\ SingleInvocation(x)
            /\ NumMiddlewares >= 2
            /\ \E p \in Logged(x, "route") :
                  /\ x.log[p].i >= 2
                  /\ x.params.val # NoParams
                  /\ \E j \in 1..(x.log[p].i - 1) :
                        routes["app"][j].method = x.method

\* the middleware invocations among the first p entries of the log
MwCountBefore(x, p) == Cardinality({q \in Logged(x, "mw") : q < p})

\* what the log shows of the cursor: no slot beyond the middleware count,
\* no slot invoked twice, and every error-free continuation call followed
\* at once by the next middleware not yet invoked or, when all have been,
\* by a run of the matcher
CursorResumes(x) ==
    /\ x.idx <= NumMiddlewares
    /\ \A p, q \in Logged(x, "mw") : x.log[p].i = x.log[q].i => p = q
    /\ \A p \in Logged(x, "next") \cup Logged(x, "pass") :
          /\ p < Len(x.log)
          /\ IF MwCountBefore(x, p) < NumMiddlewares
             THEN x.log[p + 1] = Event("mw", MwCountBefore(x, p) + 1)
             ELSE x.log[p + 1] = Event("match", 0)

\* C25: the cursor of an exchange only increases and never exceeds the
\* middleware count, a middleware is invoked at most once, and every
\* error-free continuation call, a handler's second one included, resumes
\* from the cursor: the next middleware not yet run, or route matching
\* (again) when the list is exhausted.
C25_CursorOnlyAdvancesAndCallsResumeFromIt ==
    [][\A e \in ExIds :
          /\ ex[e].active => ex'[e].idx >= ex[e].idx
          /\ CursorResumes(ex'[e])]_vars

\* C25's case: a handler has called the continuation twice; the second
\* call found the list exhausted and matching ran a second time, so that
\* the route handler was invoked twice
C25_Witness ==
    \E e \in ExIds :
        LET x == ex[e]
        IN  /\ NumMiddlewares >= 3
            /\ \E i \in 2..(NumMiddlewares - 1) : HandlerCalls(x, i) = 2
            /\ Cardinality(Logged(x, "match")) = 2
            /\ Cardinality(Logged(x, "route")) = 2

----------------------------------------------------------------------------
(* Claims about the bytes of a file attachment, checked under SpecDecode *)

FileDone == mOut.done /\ mIn.fn = "parseFile"

\* C26: the data of a file attachment is the content that was sent between
\* the blank line of the part and the CRLF before the next boundary line:
\* the same length and the same bytes in the same order, whatever their
\* values.
C26_FileDataIsTheBytesSent ==
    FileDone =>
        /\ DOMAIN mOut.v.files = {<<"a">>}
        /\ mOut.v.files[<<"a">>].data = mIn.content
        /\ mOut.v.fields = NoParams

\* C26's case: a file of a byte above 0x7F, a NUL and a line feed has been
\* decoded
C26_Witness ==
    /\ FileDone
    /\ mIn.content = <<233, 0, 10>>
    /\ <<"a">> \in DOMAIN mOut.v.files
    /\ Len(mOut.v.files[<<"a">>].data) = 3

----------------------------------------------------------------------------
(* Claims about middlewares registered after routes, checked under         *)
(* SpecOrder                                                               *)

----------------------------------------------------------------------------
(* Claims about the outcome of an exchange, checked under Spec             *)

\* the positions in the log where the exchange reached an outcome: a
\* middleware answered by itself, the pipeline wrote 500 or 404, or a
\* route handler was invoked
Outcomes(x) ==
    Logged(x, "respond") \cup Logged(x, "500") \cup Logged(x, "404")
        \cup Logged(x, "route")

\* C28: when no handler calls the continuation twice, nor after it has
\* written the response, an exchange reaches at most one outcome, once: a
\* middleware answers by itself, the pipeline writes 500, the pipeline
\* writes 404, or one route handler is invoked; never 404 and 500 both,
\* never 404 or 500 behind the invocation of a route handler.
C28_AtMostOneOutcomeUnderSingleInvocation ==
    \A e \in ExIds :
        LET x == ex[e]
        IN  SingleInvocation(x) =>
              /\ Cardinality(Outcomes(x)) <= 1
              /\ Len(x.res.ends) <= 1
              /\ ~(EndedWith(x, "404") /\ EndedWith(x, "500"))
              /\ \A p \in Logged(x, "route") :
                    \A q \in Logged(x, "404") \cup Logged(x, "500") : q < p

\* C28's case: every handler called the continuation once, the last of
\* three with an error, and the pipeline wrote 500
C28_Witness ==
    \E e \in ExIds :
        LET x == ex[e]
        IN  /\ SingleInvocation(x)
            /\ x.idx = 3
            /\ \A i \in 1..3 : CallsBy(x, i) = 1
            /\ Logged(x, "nextErr") # {}
            /\ x.res.statusCode = 500
            /\ Cardinality(Outcomes(x)) = 1

----------------------------------------------------------------------------
(* Claims about the order of the parent's route table, checked under       *)
(* SpecReg                                                                 *)

\* the pathnames the routes of SpecReg can overlap on
OverlapPathnames == {<<"/">>, <<"/", "b">>, <<"/", "a">>, <<"/", "a", "/", "b">>}

\* the routes a step has added to the app's table are the sub-router's
\* routes, all of them and in the sub-router's order, under one prefix
IsMountedBlock(added) ==
    /\ Len(added) = Len(routes["router"])
    /\ \E m \in RegPrefixes :
          \A j \in 1..Len(added) :
              /\ added[j].handler = routes["router"][j].handler
              /\ added[j].method = routes["router"][j].method
              /\ added[j].path = FullPath(m, routes["router"][j].path)

\* C29: the app's route table is ordered by the time of the registering
\* call: every step keeps the routes the table has in their places and puts
\* what it adds behind them, a mount adds the sub-router's routes as one
\* block in the sub-router's order, a route registration adds one route;
\* hence the route that wins a request keeps winning whatever is registered
\* or mounted later.
C29_RouteTableIsOrderedByRegistrationTime ==
    [][LET old   == routes["app"]
           new   == routes'["app"]
           added == SubSeq(new, Len(old) + 1, Len(new))
       IN  /\ Len(new) >= Len(old)
           /\ SubSeq(new, 1, Len(old)) = old
           /\ added # <<>> =>
                 /\ \/ /\ Len(added) = 1
                       /\ added[1].handler = Handler("app", Len(new))
                    \/ IsMountedBlock(added)
                 /\ \A m \in RegMethods, p \in OverlapPathnames :
                       LET k == FindRoute(old, m, p, 1)
                       IN  k > 0 => FindRoute(new, m, p, 1) = k
      ]_vars

\* C29's case: a route of the app, behind it a mounted route, behind that a
\* route of the app registered after the mount, all three for the same
\* method and pathname; the first of them wins
C29_Witness ==
    \E i, j, k \in 1..Len(routes["app"]) :
        /\ i < j /\ j < k
        /\ routes["app"][i].handler.o = "app"
        /\ routes["app"][j].handler.o = "router"
        /\ routes["app"][k].handler.o = "app"
        /\ \E m \in RegMethods, p \in OverlapPathnames :
              /\ \A h \in {i, j, k} :
                    /\ routes["app"][h].method = m
                    /\ matchPath(routes["app"][h].path, p).matched
              /\ FindRoute(routes["app"], m, p, 1) = i

----------------------------------------------------------------------------
(* Claims about the gates of a mounted router's middlewares, checked under *)
(* SpecMount                                                               *)

\* the slots of the app's list that hold a handler the router registered
\* with use(p, h)
MountedGatedSlots ==
    {i \in 1..NumMiddlewares :
        /\ middlewares["app"][i].h.o = "router"
        /\ middlewares["router"][middlewares["app"][i].h.n].gates # <<>>}

\* C30: a handler the router registered with use(p, h) stands in the app's
\* list, once the router is mounted at m, behind the gate m and its own
\* gate p, which the mount leaves as it is; when its slot is reached the
\* handler is invoked if and only if the pathname starts with m and starts
\* with p.
C30_MountedGatesComposeByConjunction ==
    \A i \in MountedGatedSlots :
        LET mw == middlewares["app"][i]
            p  == middlewares["router"][mw.h.n].gates[1]
        IN  /\ \E m \in RegPrefixes : mw.gates = <<m, p>>
            /\ \A e \in ExIds :
                  LET x == ex[e]
                  IN  LoggedBy(x, "mw", i) # {} =>
                        (LoggedBy(x, "fn", i) # {}
                            <=> /\ IsPrefix(mw.gates[1], x.pathname)
                                /\ IsPrefix(p, x.pathname))

\* C30's case: the router registered a handler with use('/a', h) and was
\* mounted at '/a'; the handler was invoked for the pathname '/a', which
\* starts with both and neither starts with '/a/a' nor, with the mount
\* prefix removed, with '/a'
C30_Witness ==
    \E i \in MountedGatedSlots, e \in ExIds :
        /\ middlewares["app"][i].gates = <<<<"/", "a">>, <<"/", "a">>>>
        /\ ex[e].pathname = <<"/", "a">>
        /\ LoggedBy(ex[e], "fn", i) # {}

====
